---- MODULE Spec2Model ----
(***************************************************************************)
(* A model of the yahtz scoring engine: the Box enumeration (boxes.py),    *)
(* DiceRoll's combination predicates and the DiceCup (dicetypes.py), the   *)
(* eligibility and scoring functions (scorecheck.py), the Scorecard state  *)
(* machine (scorecard.py) and the Monte Carlo player (montecarlo.py).      *)
(***************************************************************************)
EXTENDS Integers, Sequences, FiniteSets, TLC

VARIABLES
    box_scores,           \* Scorecard.box_scores: Box -> optional score
    yahtzee_bonus_count,  \* Scorecard.yahtzee_bonus_count
    fills,                \* successful fills made since the initial state
    last_op,              \* the operation called last ("none" before any call)
    last_box,             \* its box argument
    last_roll,            \* its roll argument (for roll_dice: the roll the cup stored)
    raised,               \* the exception it raised ("none": it returned)
    scoreability,         \* the value check_scoreability returned ("none" for other calls)
    pre_scores,           \* box_scores when the last call was made
    pre_bonus,            \* yahtzee_bonus_count when the last call was made
    returned,             \* the value the last call returned (None for other calls)
    last_indices,         \* the reroll indices the last call was given
    script,               \* the list of scorecard calls being played (empty: none)
    played,               \* how many of them have been made
    _roll_count,          \* DiceCup._roll_count
    _stored_roll,         \* DiceCup._stored_roll (None before the first roll)
    roll_calls,           \* roll_dice calls made on the cup
    rolls_produced,       \* rolls the cup has returned
    pc,                   \* where the Monte Carlo player's decision stands
    roll_count,           \* the roll number make_turn_decision was given
    trials,               \* TurnManager.trials
    sim_box,              \* index in the unscored boxes of the strategy being simulated
    trial_idx,            \* trials run by the simulation in progress
    occurrences,          \* its occurrences, by box
    total_scores,         \* its total scores, by box
    simulated_roll,       \* the roll of the trial in progress
    analysis,             \* the analysis simulate_rolls returned
    expected_results,     \* the expected scores kept by _simulate_strategies
    cache,                \* the entries of check_scoreability's functools cache
    last_card,            \* the card argument of the last cached call
    view,                 \* the ScorecardView last taken of the scorecard (None before)
    take_turn_dice_to_reroll,  \* take_turn's dice_to_reroll
    _scorecards,          \* Game._scorecards: the scorecard of every player
    _current_player_index,  \* Game._current_player_index
    _has_final_results    \* Game._has_final_results

\* the cup's fields and the counts kept about it
cup_vars == <<_roll_count, _stored_roll, roll_calls, rolls_produced>>

\* the Monte Carlo player's decision in progress
bot_vars == <<pc, roll_count, trials, sim_box, trial_idx, occurrences, total_scores,
              simulated_roll, analysis, expected_results>>

\* the game in progress
game_vars == <<_scorecards, _current_player_index, _has_final_results>>

\* the memoization cache, the view taken of the scorecard, the turn in
\* progress and the game
ext_vars == <<cache, last_card, view, take_turn_dice_to_reroll, game_vars>>

\* the variables outside the scorecard and the call record
rest_vars == <<script, played, cup_vars, bot_vars, ext_vars>>

vars == <<box_scores, yahtzee_bonus_count, fills, last_op, last_box, last_roll,
          raised, scoreability, pre_scores, pre_bonus, returned, last_indices,
          rest_vars>>

----------------------------------------------------------------------------
(* Bounds of the model *)

\* successful fills explored from each initial scorecard
MaxFills == 1

\* how many rolls of RollPool the scorecard operations are called with
NumRolls == 6

\* the faces the dice of the cup come up with: 1..CupFaces
CupFaces == 2

\* roll_dice calls explored on one cup
MaxRollCalls == 5

\* the numbers of trials the TurnManager is built with: 1..MaxTrials
MaxTrials == 2

\* the most boxes left to fill on the scorecards the player decides on
MaxUnscored == 3

\* the faces the dice of the simulated trials show: the NumSimFaces highest
NumSimFaces == 2

\* the faces of the rolls compared with each other: 1..EqFaces
EqFaces == 2

\* how many rolls of RollPool the memoized calls are made with
NumMemoRolls == 1

\* the most entries the cache of check_scoreability is let grow to
MaxCached == 2

\* the boxes of a view that are written to: the first MaxWrittenBoxes
MaxWrittenBoxes == 2

\* the players of the game
NumPlayers == 2

\* how many rolls of RollPool the players end their turns on
NumGameRolls == 1

\* the players choose among the first MaxChoices eligible boxes
MaxChoices == 2

----------------------------------------------------------------------------
(* Python's Optional[int]: None is the empty sequence, a score v is <<v>> *)

None == << >>

Some(v) == <<v>>

\* `score or 0`
OrZero(s) == IF s = None THEN 0 ELSE s[1]

----------------------------------------------------------------------------
(* boxes.py *)

\* the members of Box in definition (enumeration) order
BoxOrder ==
    << "ACES", "TWOS", "THREES", "FOURS", "FIVES", "SIXES",
       "THREE_OF_A_KIND", "FOUR_OF_A_KIND", "FULL_HOUSE", "SMALL_STRAIGHT",
       "LARGE_STRAIGHT", "YAHTZEE", "CHANCE" >>

Box == {BoxOrder[i] : i \in 1..Len(BoxOrder)}

\* Box.die_number: the face of an Upper box, None for a Lower box
die_number(box) ==
    CASE box = "ACES" -> Some(1)
      [] box = "TWOS" -> Some(2)
      [] box = "THREES" -> Some(3)
      [] box = "FOURS" -> Some(4)
      [] box = "FIVES" -> Some(5)
      [] box = "SIXES" -> Some(6)
      [] OTHER -> None

\* Box.section
section(box) == IF die_number(box) # None THEN "UPPER" ELSE "LOWER"

get_upper_boxes == {c \in Box : section(c) = "UPPER"}

get_lower_boxes == {c \in Box : section(c) = "LOWER"}

\* Box.from_scoring_number
from_scoring_number(die) ==
    CASE die = 1 -> "ACES"
      [] die = 2 -> "TWOS"
      [] die = 3 -> "THREES"
      [] die = 4 -> "FOURS"
      [] die = 5 -> "FIVES"
      [] die = 6 -> "SIXES"

----------------------------------------------------------------------------
(* dicetypes.py: DiceRoll *)

\* a DiceRoll holds exactly five numbers
NumDice == 5

\* each between 1 and 6
NumFaces == 6

\* the valid DiceRoll number lists
DiceRoll == [1..NumDice -> 1..NumFaces]

RECURSIVE SumSeq(_)
\* sum(roll)
SumSeq(s) == IF s = << >> THEN 0 ELSE Head(s) + SumSeq(Tail(s))

RECURSIVE InsertSorted(_, _)
InsertSorted(x, s) ==
    IF s = << >> THEN <<x>>
    ELSE IF x <= Head(s) THEN <<x>> \o s
    ELSE <<Head(s)>> \o InsertSorted(x, Tail(s))

RECURSIVE sorted(_)
\* Python's sorted() on a list of integers
sorted(s) == IF s = << >> THEN << >> ELSE InsertSorted(Head(s), sorted(Tail(s)))

\* Counter(numbers)[f]
Count(numbers, f) == Cardinality({i \in DOMAIN numbers : numbers[i] = f})

\* Counter(numbers).values(): the counts of the faces that occur
number_counts(numbers) ==
    SelectSeq([f \in 1..NumFaces |-> Count(numbers, f)], LAMBDA c : c > 0)

\* max() of a non-empty list of integers
MaxOf(s) == CHOOSE m \in {s[i] : i \in DOMAIN s} : \A i \in DOMAIN s : s[i] <= m

\* set(numbers)
SetOf(numbers) == {numbers[i] : i \in DOMAIN numbers}

\* __contains__ with the five-of-a-kind left out of FULL_HOUSE
contains_full_house_strict(roll, element) ==
    IF section(element) = "UPPER" \/ element = "CHANCE" THEN TRUE
    ELSE IF element = "THREE_OF_A_KIND" THEN MaxOf(number_counts(roll)) >= 3
    ELSE IF element = "FOUR_OF_A_KIND" THEN MaxOf(number_counts(roll)) >= 4
    ELSE IF element = "FULL_HOUSE" THEN sorted(number_counts(roll)) = <<2, 3>>
    ELSE IF element = "SMALL_STRAIGHT"
        THEN \E s \in {{1, 2, 3, 4}, {2, 3, 4, 5}, {3, 4, 5, 6}} : s \subseteq SetOf(roll)
    ELSE IF element = "LARGE_STRAIGHT"
        THEN sorted(roll) \in {<<1, 2, 3, 4, 5>>, <<2, 3, 4, 5, 6>>}
    ELSE IF element = "YAHTZEE" THEN MaxOf(number_counts(roll)) = 5
    ELSE FALSE

\* DiceRoll.__contains__ for a Box element: `box in roll`
contains(roll, element) ==
    IF section(element) = "UPPER" \/ element = "CHANCE" THEN TRUE
    ELSE IF element = "THREE_OF_A_KIND" THEN MaxOf(number_counts(roll)) >= 3
    ELSE IF element = "FOUR_OF_A_KIND" THEN MaxOf(number_counts(roll)) >= 4
    ELSE IF element = "FULL_HOUSE"
        THEN sorted(number_counts(roll)) \in {<<2, 3>>, <<5>>}
    ELSE IF element = "SMALL_STRAIGHT"
        THEN \E s \in {{1, 2, 3, 4}, {2, 3, 4, 5}, {3, 4, 5, 6}} : s \subseteq SetOf(roll)
    ELSE IF element = "LARGE_STRAIGHT"
        THEN sorted(roll) \in {<<1, 2, 3, 4, 5>>, <<2, 3, 4, 5, 6>>}
    ELSE IF element = "YAHTZEE" THEN MaxOf(number_counts(roll)) = 5
    ELSE FALSE

----------------------------------------------------------------------------
(* dicetypes.py: DiceCup *)

MAX_ROLL_COUNT == 3

\* the rolls a throw of all five dice can show
Throws == [1..NumDice -> 1..CupFaces]

\* what a roll_dice call leaves behind: the cup's two fields, the exception
\* raised and the roll returned
CupOutcome(count, stored, exc, roll) ==
    [_roll_count |-> count, _stored_roll |-> stored, raised |-> exc, returned |-> roll]

\* roll_dice without the limit on the roll count
roll_dice_unlimited(count, stored, reroll_indices) ==
    IF stored = None \/ reroll_indices = {}
        THEN {CupOutcome(count + 1, roll, "none", roll) : roll \in Throws}
    ELSE {CupOutcome(count + 1, roll, "none", roll) :
              roll \in {r \in Throws : \A i \in 0..(NumDice - 1) :
                            i \notin reroll_indices => r[i + 1] = stored[i + 1]}}

\* roll_dice on a cup that allows two rolls
roll_dice_two_rolls(count, stored, reroll_indices) ==
    IF count + 1 > MAX_ROLL_COUNT - 1
        THEN {CupOutcome(count + 1, stored, "DiceRollCountError", None)}
    ELSE IF stored = None \/ reroll_indices = {}
        THEN {CupOutcome(count + 1, roll, "none", roll) : roll \in Throws}
    ELSE {CupOutcome(count + 1, roll, "none", roll) :
              roll \in {r \in Throws : \A i \in 0..(NumDice - 1) :
                            i \notin reroll_indices => r[i + 1] = stored[i + 1]}}

\* roll_dice throwing all five dice on every call
roll_dice_redrawing_all(count, stored, reroll_indices) ==
    IF count + 1 > MAX_ROLL_COUNT
        THEN {CupOutcome(count + 1, stored, "DiceRollCountError", None)}
    ELSE {CupOutcome(count + 1, roll, "none", roll) : roll \in Throws}

\* DiceCup.roll_dice: the outcomes a call can have, one for every way the
\* dice can fall (reroll_indices is the set of the 0-based indices given;
\* None and the empty list are the empty set)
roll_dice(count, stored, reroll_indices) ==
    IF count + 1 > MAX_ROLL_COUNT
        THEN {CupOutcome(count + 1, stored, "DiceRollCountError", None)}
    ELSE IF stored = None \/ reroll_indices = {}
        THEN {CupOutcome(count + 1, roll, "none", roll) : roll \in Throws}
    ELSE {CupOutcome(count + 1, roll, "none", roll) :
              roll \in {r \in Throws : \A i \in 0..(NumDice - 1) :
                            i \notin reroll_indices => r[i + 1] = stored[i + 1]}}

\* DiceCup.current_role
current_role(stored) == stored

\* DiceRoll.__eq__ comparing the dice position by position
DiceRoll__eq__in_order(numbers, other) == numbers = other

\* DiceRoll.__eq__ between two rolls: sorted(self._numbers) == sorted(other._numbers)
DiceRoll__eq__(numbers, other) == sorted(numbers) = sorted(other)

\* DiceRoll.__hash__: hash(tuple(sorted(self._numbers))); the sorted tuple
\* stands for its hash (equal tuples have equal hashes)
DiceRoll__hash__(numbers) == sorted(numbers)

----------------------------------------------------------------------------
(* scorecheck.py *)

_calculate_upper_score(box, roll) ==
    LET target_number == die_number(box)[1]
    IN  SumSeq(SelectSeq(roll, LAMBDA n : n = target_number))

\* calculate_score with FULL_HOUSE valued as the sum of the dice
calculate_score_full_house_summed(box, roll) ==
    IF section(box) = "UPPER" THEN _calculate_upper_score(box, roll)
    ELSE IF box = "FULL_HOUSE" THEN SumSeq(roll)
    ELSE IF box = "SMALL_STRAIGHT" THEN 30
    ELSE IF box = "LARGE_STRAIGHT" THEN 40
    ELSE IF box = "YAHTZEE" THEN 50
    ELSE SumSeq(roll)

calculate_score(box, roll) ==
    IF section(box) = "UPPER" THEN _calculate_upper_score(box, roll)
    ELSE IF box = "FULL_HOUSE" THEN 25
    ELSE IF box = "SMALL_STRAIGHT" THEN 30
    ELSE IF box = "LARGE_STRAIGHT" THEN 40
    ELSE IF box = "YAHTZEE" THEN 50
    ELSE SumSeq(roll)

_is_scored(box, card) == card[box] # None

_joker_rules_active(roll, card) ==
    contains(roll, "YAHTZEE") /\ _is_scored("YAHTZEE", card)

\* the joker rule without the matching Upper box coming first
joker_lower_open_at_once(box, roll, card) ==
    LET matched_box == from_scoring_number(roll[1])
        lower_boxes == get_lower_boxes
        no_free_lower_boxes == \A c \in lower_boxes : _is_scored(c, card)
    IN  IF box = matched_box THEN "POINTS_SCOREABLE"
        ELSE IF box \in lower_boxes THEN "POINTS_SCOREABLE"
        ELSE IF no_free_lower_boxes THEN "POINTS_SCOREABLE"
        ELSE "NOT_SCOREABLE"

\* the joker rule with any() in place of all() over the Lower boxes
joker_any_lower_scored(box, roll, card) ==
    LET matched_box == from_scoring_number(roll[1])
        lower_boxes == get_lower_boxes
        no_free_lower_boxes == \E c \in lower_boxes : _is_scored(c, card)
    IN  IF ~_is_scored(matched_box, card)
        THEN IF box = matched_box THEN "POINTS_SCOREABLE" ELSE "NOT_SCOREABLE"
        ELSE IF box \in lower_boxes THEN "POINTS_SCOREABLE"
        ELSE IF no_free_lower_boxes THEN "POINTS_SCOREABLE"
        ELSE "NOT_SCOREABLE"

\* the joker rule without the Upper boxes as a last resort
joker_without_upper_fallback(box, roll, card) ==
    LET matched_box == from_scoring_number(roll[1])
        lower_boxes == get_lower_boxes
    IN  IF ~_is_scored(matched_box, card)
        THEN IF box = matched_box THEN "POINTS_SCOREABLE" ELSE "NOT_SCOREABLE"
        ELSE IF box \in lower_boxes THEN "POINTS_SCOREABLE"
        ELSE "NOT_SCOREABLE"

_check_joker_scoreability(box, roll, card) ==
    LET matched_box == from_scoring_number(roll[1])
        lower_boxes == get_lower_boxes
        no_free_lower_boxes == \A c \in lower_boxes : _is_scored(c, card)
    IN  IF ~_is_scored(matched_box, card)
        THEN IF box = matched_box THEN "POINTS_SCOREABLE" ELSE "NOT_SCOREABLE"
        ELSE IF box \in lower_boxes THEN "POINTS_SCOREABLE"
        ELSE IF no_free_lower_boxes THEN "POINTS_SCOREABLE"
        ELSE "NOT_SCOREABLE"

_check_standard_scoreability(box, roll) ==
    IF contains(roll, box) THEN "POINTS_SCOREABLE" ELSE "ZERO_SCOREABLE"

\* check_scoreability without the already-scored test
check_scoreability_of_any_box(box, roll, card) ==
    IF _joker_rules_active(roll, card) THEN _check_joker_scoreability(box, roll, card)
    ELSE _check_standard_scoreability(box, roll)

check_scoreability(box, roll, card) ==
    IF _is_scored(box, card) THEN "NOT_SCOREABLE"
    ELSE IF _joker_rules_active(roll, card) THEN _check_joker_scoreability(box, roll, card)
    ELSE _check_standard_scoreability(box, roll)

----------------------------------------------------------------------------
(* scorecard.py: Scorecard *)

\* Scorecard.__init__: every box None
EmptyCard == [box \in Box |-> None]

\* what a call leaves behind: the card's two fields and the exception raised
Outcome(scores, count, exc) ==
    [box_scores |-> scores, yahtzee_bonus_count |-> count, raised |-> exc]

\* zero_box without the already-scored test
zero_box_overwriting(scores, count, box, roll) ==
    LET zeroed == [scores EXCEPT ![box] = Some(0)]
    IN  IF contains(roll, "YAHTZEE") /\ zeroed["YAHTZEE"] = Some(50)
        THEN Outcome(zeroed, count + 1, "none")
        ELSE Outcome(zeroed, count, "none")

\* zero_box refusing a box that is not ZERO_SCOREABLE
zero_box_validating(scores, count, box, roll) ==
    IF scores[box] # None THEN Outcome(scores, count, "BoxAlreadyScored")
    ELSE IF check_scoreability(box, roll, scores) # "ZERO_SCOREABLE"
        THEN Outcome(scores, count, "InvalidBoxError")
    ELSE LET zeroed == [scores EXCEPT ![box] = Some(0)]
         IN  IF contains(roll, "YAHTZEE") /\ zeroed["YAHTZEE"] = Some(50)
             THEN Outcome(zeroed, count + 1, "none")
             ELSE Outcome(zeroed, count, "none")

\* Scorecard.zero_box
zero_box(scores, count, box, roll) ==
    IF scores[box] # None THEN Outcome(scores, count, "BoxAlreadyScored")
    ELSE LET zeroed == [scores EXCEPT ![box] = Some(0)]
         IN  IF contains(roll, "YAHTZEE") /\ zeroed["YAHTZEE"] = Some(50)
             THEN Outcome(zeroed, count + 1, "none")
             ELSE Outcome(zeroed, count, "none")

\* set_box_score validating playability before the already-scored test
set_box_score_validating_first(scores, count, box, roll) ==
    IF check_scoreability(box, roll, scores) = "NOT_SCOREABLE"
        THEN Outcome(scores, count, "InvalidBoxError")
    ELSE IF scores[box] # None THEN Outcome(scores, count, "BoxAlreadyScored")
    ELSE LET bonus == IF contains(roll, "YAHTZEE") /\ scores["YAHTZEE"] = Some(50)
                      THEN count + 1 ELSE count
         IN  Outcome([scores EXCEPT ![box] = Some(calculate_score(box, roll))],
                     bonus, "none")

\* set_box_score without the playability validation
set_box_score_unvalidated(scores, count, box, roll) ==
    IF scores[box] # None THEN Outcome(scores, count, "BoxAlreadyScored")
    ELSE LET bonus == IF contains(roll, "YAHTZEE") /\ scores["YAHTZEE"] = Some(50)
                      THEN count + 1 ELSE count
         IN  Outcome([scores EXCEPT ![box] = Some(calculate_score(box, roll))],
                     bonus, "none")

\* set_box_score awarding the bonus after the score is stored, as zero_box does
set_box_score_bonus_last(scores, count, box, roll) ==
    IF scores[box] # None THEN Outcome(scores, count, "BoxAlreadyScored")
    ELSE IF check_scoreability(box, roll, scores) = "NOT_SCOREABLE"
        THEN Outcome(scores, count, "InvalidBoxError")
    ELSE LET stored == [scores EXCEPT ![box] = Some(calculate_score(box, roll))]
         IN  IF contains(roll, "YAHTZEE") /\ stored["YAHTZEE"] = Some(50)
             THEN Outcome(stored, count + 1, "none")
             ELSE Outcome(stored, count, "none")

\* Scorecard.set_box_score (box is always a member of Box, so the
\* `box not in self.box_scores` test never raises)
set_box_score(scores, count, box, roll) ==
    IF scores[box] # None THEN Outcome(scores, count, "BoxAlreadyScored")
    ELSE IF check_scoreability(box, roll, scores) = "NOT_SCOREABLE"
        THEN Outcome(scores, count, "InvalidBoxError")
    ELSE LET bonus == IF contains(roll, "YAHTZEE") /\ scores["YAHTZEE"] = Some(50)
                      THEN count + 1 ELSE count
         IN  Outcome([scores EXCEPT ![box] = Some(calculate_score(box, roll))],
                     bonus, "none")

\* Scorecard.get_unscored_boxes
get_unscored_boxes(scores) == {box \in Box : scores[box] = None}

UPPER_BONUS_SCORE == 35

UPPER_BONUS_THRESHOLD == 63

YAHTZEE_BONUS_SCORE == 100

RECURSIVE SumOrZero(_, _)
\* sum(self.box_scores[box] or 0 for box in boxes)
SumOrZero(boxes, scores) ==
    IF boxes = {} THEN 0
    ELSE LET box == CHOOSE b \in boxes : TRUE
         IN  OrZero(scores[box]) + SumOrZero(boxes \ {box}, scores)

\* get_card_score with the Upper bonus only above the threshold
get_card_score_above_threshold(scores, count) ==
    LET upper_score == SumOrZero(get_upper_boxes, scores)
        lower_score == SumOrZero(get_lower_boxes, scores)
        upper_bonus == IF upper_score > UPPER_BONUS_THRESHOLD THEN UPPER_BONUS_SCORE ELSE 0
        yahtzee_bonus == count * YAHTZEE_BONUS_SCORE
    IN  upper_score + upper_bonus + lower_score + yahtzee_bonus

\* get_card_score with the YAHTZEE bonus counted once however many were earned
get_card_score_single_bonus(scores, count) ==
    LET upper_score == SumOrZero(get_upper_boxes, scores)
        lower_score == SumOrZero(get_lower_boxes, scores)
        upper_bonus == IF upper_score >= UPPER_BONUS_THRESHOLD THEN UPPER_BONUS_SCORE ELSE 0
        yahtzee_bonus == IF count > 0 THEN YAHTZEE_BONUS_SCORE ELSE 0
    IN  upper_score + upper_bonus + lower_score + yahtzee_bonus

\* Scorecard.get_card_score
get_card_score(scores, count) ==
    LET upper_score == SumOrZero(get_upper_boxes, scores)
        lower_score == SumOrZero(get_lower_boxes, scores)
        upper_bonus == IF upper_score >= UPPER_BONUS_THRESHOLD THEN UPPER_BONUS_SCORE ELSE 0
        yahtzee_bonus == count * YAHTZEE_BONUS_SCORE
    IN  upper_score + upper_bonus + lower_score + yahtzee_bonus

----------------------------------------------------------------------------
(* scorecard.py: ScorecardView *)

\* ScorecardView.get_unscored_boxes: the unscored boxes in enumeration order
\* (the view's box_scores is a copy of the card's, in the card's key order)
view_get_unscored_boxes(scores) == SelectSeq(BoxOrder, LAMBDA c : scores[c] = None)

----------------------------------------------------------------------------
(* montecarlo.py: RerollStrategy.  A list of reroll indices is modelled as *)
(* the set of the 0-based indices it holds.                                *)

REROLL_ALL == 0..(NumDice - 1)

REROLL_NONE == {}

\* twice RerollStrategy.EV = 3.5, the expected value of a single rolled die:
\* n > EV is 2 * n > TWICE_EV
TWICE_EV == 7

RECURSIVE CounterKeys(_)
\* the keys of Counter(numbers), in the order of their first occurrence
CounterKeys(numbers) ==
    IF numbers = << >> THEN << >>
    ELSE LET front == SubSeq(numbers, 1, Len(numbers) - 1)
             last == numbers[Len(numbers)]
         IN  IF last \in SetOf(front) THEN CounterKeys(front)
             ELSE Append(CounterKeys(front), last)

\* Counter(numbers).most_common(): <<number, count>> pairs, the highest count
\* first, equal counts in the order of first occurrence
most_common(numbers) ==
    LET keys == CounterKeys(numbers)
        Before(i, j) ==
            \/ Count(numbers, keys[i]) > Count(numbers, keys[j])
            \/ Count(numbers, keys[i]) = Count(numbers, keys[j]) /\ i < j
        Rank(j) == Cardinality({i \in DOMAIN keys : Before(i, j)}) + 1
    IN  [r \in DOMAIN keys |->
            LET j == CHOOSE j \in DOMAIN keys : Rank(j) = r
            IN  <<keys[j], Count(numbers, keys[j])>>]

\* RerollStrategy._upper_strategy
_upper_strategy(box, roll) ==
    LET box_number == die_number(box)[1]
    IN  IF Count(roll, box_number) > 0
        THEN {i \in 0..(NumDice - 1) : roll[i + 1] # box_number}
        ELSE REROLL_ALL

\* RerollStrategy._kind_strategy
_kind_strategy(box, roll, counts) ==
    LET keeper_target == IF box = "THREE_OF_A_KIND" THEN 3 ELSE 4
        number == counts[1][1]
        kind == counts[1][2]
        max_number == MaxOf(roll)
    IN  IF kind = 1
        THEN IF 2 * max_number > TWICE_EV
             THEN {i \in 0..(NumDice - 1) : roll[i + 1] # max_number}
             ELSE REROLL_ALL
        ELSE IF kind < keeper_target
        THEN {i \in 0..(NumDice - 1) : roll[i + 1] # number}
        ELSE {i \in 0..(NumDice - 1) : roll[i + 1] # number /\ 2 * roll[i + 1] < TWICE_EV}

\* RerollStrategy._full_house_strategy
_full_house_strategy(roll, counts) ==
    LET number == counts[1][1]
        kind == counts[1][2]
    IN  IF contains(roll, "FULL_HOUSE") THEN REROLL_NONE
        ELSE IF kind = 2
        THEN LET second_number == counts[2][1]
                 second_kind == counts[2][2]
             IN  IF second_kind = 2
                 THEN {i \in 0..(NumDice - 1) : roll[i + 1] \notin {number, second_number}}
                 ELSE {i \in 0..(NumDice - 1) : roll[i + 1] # number}
        ELSE IF 3 <= kind /\ kind <= 4
        THEN {i \in 0..(NumDice - 1) : roll[i + 1] # number}
        ELSE REROLL_ALL

\* _straight_strategy redrawing only the dice outside the chosen run
_straight_strategy_keeping_duplicates(box, roll) ==
    LET patterns == IF box = "SMALL_STRAIGHT"
                    THEN << {1, 2, 3, 4}, {2, 3, 4, 5}, {3, 4, 5, 6} >>
                    ELSE << {1, 2, 3, 4, 5}, {2, 3, 4, 5, 6} >>
        Matched(k) == Cardinality(patterns[k] \cap SetOf(roll))
        best == CHOOSE k \in DOMAIN patterns :
                    /\ \A j \in DOMAIN patterns : Matched(j) <= Matched(k)
                    /\ \A j \in 1..(k - 1) : Matched(j) < Matched(k)
        best_match == patterns[best]
    IN  IF contains(roll, box) THEN REROLL_NONE
        ELSE {idx \in 0..(NumDice - 1) : roll[idx + 1] \notin best_match}

\* RerollStrategy._straight_strategy
_straight_strategy(box, roll) ==
    LET patterns == IF box = "SMALL_STRAIGHT"
                    THEN << {1, 2, 3, 4}, {2, 3, 4, 5}, {3, 4, 5, 6} >>
                    ELSE << {1, 2, 3, 4, 5}, {2, 3, 4, 5, 6} >>
        Matched(k) == Cardinality(patterns[k] \cap SetOf(roll))
        best == CHOOSE k \in DOMAIN patterns :
                    /\ \A j \in DOMAIN patterns : Matched(j) <= Matched(k)
                    /\ \A j \in 1..(k - 1) : Matched(j) < Matched(k)
        best_match == patterns[best]
    IN  IF contains(roll, box) THEN REROLL_NONE
        ELSE {idx \in 0..(NumDice - 1) :
                 \/ roll[idx + 1] \notin best_match
                 \/ \E earlier \in 1..idx : roll[earlier] = roll[idx + 1]}

\* RerollStrategy._yahtzee_strategy (on equal counts the keeper is second[1],
\* the count of the second pair, as the code has it)
_yahtzee_strategy(roll, counts) ==
    LET first == counts[1]
        second == counts[2]
        keeper_number == IF first[2] = second[2]
                         THEN IF first[2] > second[2] THEN first[1] ELSE second[2]
                         ELSE first[1]
    IN  IF contains(roll, "YAHTZEE") THEN REROLL_NONE
        ELSE {i \in 0..(NumDice - 1) : roll[i + 1] # keeper_number}

\* RerollStrategy._chance_strategy
_chance_strategy(roll) == {i \in 0..(NumDice - 1) : 2 * roll[i + 1] < TWICE_EV}

\* RerollStrategy.choose_dice_to_reroll
choose_dice_to_reroll(box, roll) ==
    LET counts == most_common(roll)
    IN  CASE box \in {"THREE_OF_A_KIND", "FOUR_OF_A_KIND"} -> _kind_strategy(box, roll, counts)
          [] box = "FULL_HOUSE" -> _full_house_strategy(roll, counts)
          [] box \in {"SMALL_STRAIGHT", "LARGE_STRAIGHT"} -> _straight_strategy(box, roll)
          [] box = "YAHTZEE" -> _yahtzee_strategy(roll, counts)
          [] box = "CHANCE" -> _chance_strategy(roll)
          [] OTHER -> _upper_strategy(box, roll)

----------------------------------------------------------------------------
(* montecarlo.py: ScoreCalculator *)

YZ_ASSIST_BONUS == 100

YZ_PROPER_BONUS == 100

UPPER_SCORE_BONUS == 35

\* ScoreCalculator.calculate_upper_score
calculate_upper_score(card) == SumOrZero(get_upper_boxes, card)

\* ScoreCalculator._calculate_yahtzee_bonus
_calculate_yahtzee_bonus(roll, card) ==
    IF contains(roll, "YAHTZEE")
    THEN IF card["YAHTZEE"] = None THEN YZ_ASSIST_BONUS
         ELSE IF card["YAHTZEE"] = Some(50) THEN YZ_PROPER_BONUS
         ELSE 0
    ELSE 0

\* ScoreCalculator._calculate_upper_bonus
_calculate_upper_bonus(box, score, upper_score) ==
    IF section(box) = "UPPER" /\ upper_score < 63 /\ upper_score + score >= 63
    THEN UPPER_SCORE_BONUS
    ELSE 0

\* ScoreCalculator._calculate_box_score: None for a box that is not scoreable
_calculate_box_score(box, roll, card, upper_score) ==
    LET scoreable == check_scoreability(box, roll, card)
        base == IF scoreable = "POINTS_SCOREABLE" THEN calculate_score(box, roll) ELSE 0
        score == base + _calculate_yahtzee_bonus(roll, card)
    IN  IF scoreable = "NOT_SCOREABLE" THEN None
        ELSE Some(score + _calculate_upper_bonus(box, score, upper_score))

\* ScoreCalculator.calculate_trial_scores: the dict from every score reached
\* to the list of the boxes reaching it, in the order of unscored_boxes
calculate_trial_scores(unscored_boxes, roll, card, upper_score) ==
    LET box_score == [box \in SetOf(unscored_boxes) |->
                         _calculate_box_score(box, roll, card, upper_score)]
        scores == {box_score[box][1] : box \in {b \in SetOf(unscored_boxes) : box_score[b] # None}}
    IN  [score \in scores |->
            SelectSeq(unscored_boxes, LAMBDA box : box_score[box] = Some(score))]

\* max(trial_scores): the highest key of the dict
MaxKey(dict) == CHOOSE m \in DOMAIN dict : \A k \in DOMAIN dict : k <= m

----------------------------------------------------------------------------
(* montecarlo.py: SimulationEngine.  The quotient of two integers is kept  *)
(* exact, as the pair <<numerator, denominator>>.                          *)

\* a / b
Ratio(a, b) == <<a, b>>

\* x * y
Times(x, y) == <<x[1] * y[1], x[2] * y[2]>>

\* x < y (the denominators are positive)
Less(x, y) == x[1] * y[2] < y[1] * x[2]

\* Analysis
Analysis(occurred, mean, probability, expected) ==
    [occurrences |-> occurred, mean_score |-> mean, probability |-> probability,
     expected_score |-> expected]

\* defaultdict(int) over the boxes
NoCounts == [box \in Box |-> 0]

\* SimulationEngine._prepare_keepers: the dice whose index is not rerolled
_prepare_keepers(roll, reroll_indices) ==
    LET kept == (0..(NumDice - 1)) \ reroll_indices
    IN  [k \in 1..Cardinality(kept) |->
            roll[(CHOOSE i \in kept : Cardinality({j \in kept : j < i}) = k - 1) + 1]]

\* the faces the trials' dice are drawn from
SimFaces == (NumFaces - NumSimFaces + 1)..NumFaces

\* SimulationEngine._generate_reroll_batch: the lists choices() can draw for
\* one trial, by length; one list of every multiset of faces (the score of
\* the simulated roll does not depend on the order of its dice)
new_dice_choices ==
    [n \in 1..NumDice |->
        {d \in [1..n -> SimFaces] : \A i \in 1..(n - 1) : d[i] <= d[i + 1]}]

\* SimulationEngine._create_simulated_roll
_create_simulated_roll(keepers, new_dice) == keepers \o new_dice

\* the occurrences and the total scores of a simulation
Statistics(occurred, totals) == [occurrences |-> occurred, total_scores |-> totals]

\* _update_trial_statistics crediting the first only of the tied boxes
_update_trial_statistics_first_only(trial_scores, occurred, totals) ==
    IF DOMAIN trial_scores # {}
    THEN LET high_score == MaxKey(trial_scores)
             credited == {trial_scores[high_score][1]}
         IN  Statistics(
                 [box \in Box |-> IF box \in credited THEN occurred[box] + 1
                                  ELSE occurred[box]],
                 [box \in Box |-> IF box \in credited THEN totals[box] + high_score
                                  ELSE totals[box]])
    ELSE Statistics(occurred, totals)

\* SimulationEngine._update_trial_statistics
_update_trial_statistics(trial_scores, occurred, totals) ==
    IF DOMAIN trial_scores # {}
    THEN LET high_score == MaxKey(trial_scores)
             credited == SetOf(trial_scores[high_score])
         IN  Statistics(
                 [box \in Box |-> IF box \in credited THEN occurred[box] + 1
                                  ELSE occurred[box]],
                 [box \in Box |-> IF box \in credited THEN totals[box] + high_score
                                  ELSE totals[box]])
    ELSE Statistics(occurred, totals)

\* SimulationEngine._build_analysis
_build_analysis(unscored_boxes, occurred, totals, trial_count) ==
    [box \in {b \in SetOf(unscored_boxes) : occurred[b] > 0} |->
        LET mean_score == Ratio(totals[box], occurred[box])
            probability == Ratio(occurred[box], trial_count)
        IN  Analysis(occurred[box], mean_score, probability, Times(probability, mean_score))]

\* the statistics of _analyze_no_reroll with the score of one trial as the total
no_reroll_statistics_unscaled(unscored_boxes, roll, card, trial_count) ==
    LET trial_scores ==
            calculate_trial_scores(unscored_boxes, roll, card, calculate_upper_score(card))
    IN  IF DOMAIN trial_scores # {}
        THEN LET high_score == MaxKey(trial_scores)
                 credited == SetOf(trial_scores[high_score])
             IN  Statistics(
                     [box \in Box |-> IF box \in credited THEN trial_count ELSE 0],
                     [box \in Box |-> IF box \in credited THEN high_score ELSE 0])
        ELSE Statistics(NoCounts, NoCounts)

\* the statistics SimulationEngine._analyze_no_reroll hands to _build_analysis
no_reroll_statistics(unscored_boxes, roll, card, trial_count) ==
    LET trial_scores ==
            calculate_trial_scores(unscored_boxes, roll, card, calculate_upper_score(card))
    IN  IF DOMAIN trial_scores # {}
        THEN LET high_score == MaxKey(trial_scores)
                 credited == SetOf(trial_scores[high_score])
             IN  Statistics(
                     [box \in Box |-> IF box \in credited THEN trial_count ELSE 0],
                     [box \in Box |-> IF box \in credited THEN high_score * trial_count ELSE 0])
        ELSE Statistics(NoCounts, NoCounts)

\* SimulationEngine._analyze_no_reroll
_analyze_no_reroll(unscored_boxes, roll, card, trial_count) ==
    LET stats == no_reroll_statistics(unscored_boxes, roll, card, trial_count)
    IN  _build_analysis(unscored_boxes, stats.occurrences, stats.total_scores, trial_count)

----------------------------------------------------------------------------
(* montecarlo.py: TurnManager *)

\* Expected
Expected(box, expected) == [box |-> box, expected_score |-> expected]

\* TurnDecision
TurnDecision(box, end, indices) ==
    [best_box |-> box, should_end_turn |-> end, dice_to_reroll |-> indices]

\* TurnManager._calculate_reroll_strategies
_calculate_reroll_strategies(unscored_boxes, roll) ==
    [box \in SetOf(unscored_boxes) |-> choose_dice_to_reroll(box, roll)]

\* _make_final_decision always taking its fallback, the first unscored box
_make_final_decision_first_unscored(unscored_boxes, roll, card) ==
    TurnDecision(unscored_boxes[1], TRUE, {})

\* _make_final_decision returning the reroll strategy of the box it takes
_make_final_decision_rerolling(unscored_boxes, roll, card) ==
    LET boxes_by_score ==
            calculate_trial_scores(unscored_boxes, roll, card, calculate_upper_score(card))
        best_box == IF DOMAIN boxes_by_score # {}
                    THEN boxes_by_score[MaxKey(boxes_by_score)][1]
                    ELSE unscored_boxes[1]
        dice_to_reroll == choose_dice_to_reroll(best_box, roll)
    IN  TurnDecision(best_box, dice_to_reroll = {}, dice_to_reroll)

\* _make_final_decision taking the last of the boxes with the highest score
_make_final_decision_last_tied(unscored_boxes, roll, card) ==
    LET boxes_by_score ==
            calculate_trial_scores(unscored_boxes, roll, card, calculate_upper_score(card))
        tied == boxes_by_score[MaxKey(boxes_by_score)]
        best_box == IF DOMAIN boxes_by_score # {}
                    THEN tied[Len(tied)]
                    ELSE unscored_boxes[1]
    IN  TurnDecision(best_box, TRUE, {})

\* TurnManager._make_final_decision
_make_final_decision(unscored_boxes, roll, card) ==
    LET boxes_by_score ==
            calculate_trial_scores(unscored_boxes, roll, card, calculate_upper_score(card))
        best_box == IF DOMAIN boxes_by_score # {}
                    THEN boxes_by_score[MaxKey(boxes_by_score)][1]
                    ELSE unscored_boxes[1]
    IN  TurnDecision(best_box, TRUE, {})

\* max() returning the last of the results with the highest expected score
best_of_last(results) ==
    results[CHOOSE i \in DOMAIN results :
                /\ \A j \in DOMAIN results :
                       ~Less(results[i].expected_score, results[j].expected_score)
                /\ \A j \in (i + 1)..Len(results) :
                       Less(results[j].expected_score, results[i].expected_score)]

\* max(expected_results, key=lambda e: e.expected_score): the first of the
\* results with the highest expected score
best_of(results) ==
    results[CHOOSE i \in DOMAIN results :
                /\ \A j \in DOMAIN results :
                       ~Less(results[i].expected_score, results[j].expected_score)
                /\ \A j \in 1..(i - 1) :
                       Less(results[j].expected_score, results[i].expected_score)]

\* TurnManager.make_turn_decision once the strategies are simulated
decide(unscored_boxes, roll, card, results) ==
    IF results = << >> THEN _make_final_decision(unscored_boxes, roll, card)
    ELSE LET best_expected == best_of(results)
             dice_to_reroll == _calculate_reroll_strategies(unscored_boxes, roll)[best_expected.box]
         IN  TurnDecision(best_expected.box, dice_to_reroll = {}, dice_to_reroll)

----------------------------------------------------------------------------
(* game.py *)

\* Game._play_turn from the roll the player ended the turn on: the chosen
\* box is scored, zeroed or refused
_play_turn(scores, count, chosen_box, final_roll) ==
    LET scoreable == check_scoreability(chosen_box, final_roll, scores)
    IN  IF scoreable = "NOT_SCOREABLE" THEN Outcome(scores, count, "InvalidBoxError")
        ELSE IF scoreable = "POINTS_SCOREABLE"
        THEN set_box_score(scores, count, chosen_box, final_roll)
        ELSE zero_box(scores, count, chosen_box, final_roll)

----------------------------------------------------------------------------
(* Games played by the test suite, as lists of scorecard calls *)

Call(op, box, roll) == [op |-> op, box |-> box, roll |-> roll]

\* TestOriginalMetrics.test_joker_rule_fallback_zero, then the Upper boxes left
JokerFallbackGame ==
    << Call("zero_box", "YAHTZEE", <<1, 2, 3, 4, 5>>),
       Call("set_box_score", "FOURS", <<4, 4, 2, 1, 1>>),
       Call("set_box_score", "FULL_HOUSE", <<2, 2, 3, 3, 3>>),
       Call("set_box_score", "THREE_OF_A_KIND", <<2, 2, 2, 4, 5>>),
       Call("set_box_score", "FOUR_OF_A_KIND", <<6, 6, 6, 6, 3>>),
       Call("set_box_score", "SMALL_STRAIGHT", <<1, 2, 3, 4, 6>>),
       Call("set_box_score", "LARGE_STRAIGHT", <<2, 3, 4, 5, 6>>),
       Call("set_box_score", "CHANCE", <<1, 1, 1, 2, 3>>) >>

\* TestPerfectGame.test_perfect_yahtzee_game_scores_1575
PerfectGame ==
    << Call("set_box_score", "YAHTZEE", <<6, 6, 6, 6, 6>>),
       Call("set_box_score", "SIXES", <<6, 6, 6, 6, 6>>),
       Call("set_box_score", "ACES", <<1, 1, 1, 1, 1>>),
       Call("set_box_score", "TWOS", <<2, 2, 2, 2, 2>>),
       Call("set_box_score", "THREES", <<3, 3, 3, 3, 3>>),
       Call("set_box_score", "FOURS", <<4, 4, 4, 4, 4>>),
       Call("set_box_score", "FIVES", <<5, 5, 5, 5, 5>>),
       Call("set_box_score", "FULL_HOUSE", <<1, 1, 1, 1, 1>>),
       Call("set_box_score", "SMALL_STRAIGHT", <<2, 2, 2, 2, 2>>),
       Call("set_box_score", "LARGE_STRAIGHT", <<3, 3, 3, 3, 3>>),
       Call("set_box_score", "THREE_OF_A_KIND", <<4, 4, 4, 4, 4>>),
       Call("set_box_score", "FOUR_OF_A_KIND", <<5, 5, 5, 5, 5>>),
       Call("set_box_score", "CHANCE", <<6, 6, 6, 6, 6>>) >>

\* TestIsPlayable.test_joker_denied_if_all_scored: every box zeroed, in
\* enumeration order, with five 1s
AllZeroedGame == [i \in 1..Len(BoxOrder) |-> Call("zero_box", BoxOrder[i], <<1, 1, 1, 1, 1>>)]

\* TestOriginalMetrics.test_upper_section_bonus_awarded: three dice of each
\* face, an Upper sum of exactly 63
UpperBonusGame ==
    << Call("set_box_score", "ACES", <<1, 1, 1, 2, 3>>),
       Call("set_box_score", "TWOS", <<2, 2, 2, 1, 3>>),
       Call("set_box_score", "THREES", <<3, 3, 3, 2, 1>>),
       Call("set_box_score", "FOURS", <<4, 4, 4, 1, 2>>),
       Call("set_box_score", "FIVES", <<5, 5, 5, 1, 2>>),
       Call("set_box_score", "SIXES", <<6, 6, 6, 1, 2>>) >>

\* the same game with one ace fewer in its first roll: an Upper sum of 62
UpperShortGame ==
    [UpperBonusGame EXCEPT ![1] = Call("set_box_score", "ACES", <<1, 1, 2, 2, 3>>)]

\* TestUpperSection.test_upper_bonus_awarded: every Upper box with five dice
\* of its face
UpperFiveGame ==
    [f \in 1..6 |-> Call("set_box_score", from_scoring_number(f), [i \in 1..NumDice |-> f])]

\* TestOriginalMetrics.test_joker_rule_applies_to_lower_section_if_upper_filled
JokerLowerGame ==
    << Call("zero_box", "YAHTZEE", <<1, 2, 3, 4, 5>>),
       Call("set_box_score", "FOURS", <<4, 4, 2, 1, 1>>),
       Call("set_box_score", "FULL_HOUSE", <<4, 4, 4, 4, 4>>) >>

\* the games the initial scorecards are taken from
Games == {JokerFallbackGame, PerfectGame, AllZeroedGame}

\* the scorecard operation a Call names, applied to a card
Apply(c, scores, count) ==
    IF c.op = "zero_box" THEN zero_box(scores, count, c.box, c.roll)
    ELSE set_box_score(scores, count, c.box, c.roll)

RECURSIVE Replay(_, _)
\* the card a fresh Scorecard becomes after the first k calls of a game
Replay(game, k) ==
    IF k = 0 THEN Outcome(EmptyCard, 0, "none")
    ELSE LET before == Replay(game, k - 1)
         IN  Apply(game[k], before.box_scores, before.yahtzee_bonus_count)

\* a game that fills the Upper boxes in enumeration order after most of the
\* Lower boxes, FOUR_OF_A_KIND and CHANCE last
UpperLastGame ==
    << Call("set_box_score", "THREE_OF_A_KIND", <<2, 2, 2, 4, 5>>),
       Call("set_box_score", "FULL_HOUSE", <<3, 3, 3, 6, 6>>),
       Call("set_box_score", "SMALL_STRAIGHT", <<1, 2, 3, 4, 6>>),
       Call("set_box_score", "LARGE_STRAIGHT", <<2, 3, 4, 5, 6>>),
       Call("set_box_score", "YAHTZEE", <<4, 4, 4, 4, 4>>),
       Call("set_box_score", "ACES", <<1, 1, 1, 1, 2>>),
       Call("set_box_score", "TWOS", <<2, 2, 2, 2, 1>>),
       Call("set_box_score", "THREES", <<3, 3, 3, 3, 1>>),
       Call("set_box_score", "FOURS", <<4, 4, 4, 4, 1>>),
       Call("set_box_score", "FIVES", <<5, 5, 5, 1, 2>>),
       Call("set_box_score", "SIXES", <<6, 6, 6, 6, 3>>),
       Call("set_box_score", "FOUR_OF_A_KIND", <<6, 6, 6, 6, 3>>),
       Call("set_box_score", "CHANCE", <<1, 1, 2, 2, 3>>) >>

\* a game that fills the Upper boxes first and leaves the straights and
\* YAHTZEE for the end
YahtzeeLastGame ==
    UpperBonusGame \o
    << Call("set_box_score", "THREE_OF_A_KIND", <<2, 2, 2, 4, 5>>),
       Call("set_box_score", "FOUR_OF_A_KIND", <<6, 6, 6, 6, 3>>),
       Call("set_box_score", "CHANCE", <<1, 1, 2, 2, 3>>),
       Call("zero_box", "FULL_HOUSE", <<1, 2, 3, 4, 6>>),
       Call("set_box_score", "SMALL_STRAIGHT", <<1, 2, 3, 4, 6>>),
       Call("zero_box", "LARGE_STRAIGHT", <<3, 3, 4, 4, 6>>),
       Call("zero_box", "YAHTZEE", <<1, 1, 2, 2, 3>>) >>

\* the games whose scorecards the Monte Carlo player decides on
BotGames == {PerfectGame, AllZeroedGame, UpperLastGame, YahtzeeLastGame}

\* the games played call by call
PlayGames ==
    Games \cup {UpperBonusGame, UpperShortGame, UpperFiveGame, JokerLowerGame}

\* the scorecards of BotGames with some box, and at most MaxUnscored boxes,
\* left to fill
BotCards ==
    {card \in {Replay(g, k) : g \in BotGames, k \in 0..Len(BoxOrder)} :
        /\ card.raised = "none"
        /\ get_unscored_boxes(card.box_scores) # {}
        /\ Cardinality(get_unscored_boxes(card.box_scores)) <= MaxUnscored}

\* the rolls the test suite scores with
RollPool ==
    << <<6, 6, 6, 6, 6>>, <<1, 2, 3, 4, 5>>, <<4, 4, 4, 4, 4>>, <<3, 3, 3, 6, 6>>,
       <<1, 1, 2, 2, 3>>, <<6, 6, 6, 6, 3>>, <<1, 2, 3, 4, 6>>, <<2, 2, 2, 4, 5>>,
       <<1, 1, 1, 1, 1>>, <<5, 5, 5, 2, 3>>, <<2, 3, 4, 5, 6>>, <<3, 3, 4, 4, 6>> >>

\* the rolls the scorecard operations are called with
Rolls == {RollPool[i] : i \in 1..(IF NumRolls < Len(RollPool) THEN NumRolls ELSE Len(RollPool))}

\* one representative of every multiset of five faces (DiceRoll equality and
\* the combination predicates do not depend on the order of the dice)
SortedRolls == {r \in DiceRoll : \A i \in 1..(NumDice - 1) : r[i] <= r[i + 1]}

----------------------------------------------------------------------------
(* functools.cache around check_scoreability *)

\* Scorecard.__eq__ and ScorecardView.__eq__: self.box_scores == other.box_scores
Scorecard__eq__(scores, other) == scores = other

\* Scorecard.__hash__ and ScorecardView.__hash__:
\* hash(tuple(self.box_scores.values())); the tuple stands for its hash
Scorecard__hash__(scores) == [i \in 1..Len(BoxOrder) |-> scores[BoxOrder[i]]]

\* the hash of the call's arguments, which the cache files the call under
KeyHash(box, roll, scores) == <<box, DiceRoll__hash__(roll), Scorecard__hash__(scores)>>

\* A card argument is the Scorecard object, whose box_scores the fills
\* change, or a ScorecardView with the box_scores it was built over, which
\* nothing changes.
TheScorecard == [object |-> "Scorecard", box_scores |-> EmptyCard]

\* ScorecardView.__init__ (the view's box_scores)
ScorecardView(scores) == [object |-> "ScorecardView", box_scores |-> scores]

\* no card argument
NoCard == [object |-> "none", box_scores |-> EmptyCard]

\* card.box_scores now, scores being the Scorecard's box_scores
ContentsOf(card, scores) == IF card.object = "Scorecard" THEN scores ELSE card.box_scores

\* an entry of the cache: the hash taken when the call was filed, the
\* arguments (the card by reference) and the result
CacheEntry(hash, box, roll, card, result) ==
    [hash |-> hash, box |-> box, roll |-> roll, card |-> card, result |-> result]

\* what a memoized call does: the result it returns and the cache it leaves
Memoized(result, entries) == [result |-> result, cache |-> entries]

\* a cache that files every call under the identity of its arguments
memoized_by_identity(entries, scores, box, roll, card) ==
    LET hits == {e \in entries : e.box = box /\ e.roll = roll /\ e.card = card}
        result == check_scoreability(box, roll, ContentsOf(card, scores))
    IN  IF hits # {} THEN Memoized((CHOOSE e \in hits : TRUE).result, entries)
        ELSE Memoized(result,
                      entries \cup {CacheEntry(KeyHash(box, roll, ContentsOf(card, scores)),
                                               box, roll, card, result)})

\* @cache check_scoreability(box, roll, card), scores being the Scorecard's
\* box_scores now: an entry is hit when its stored hash is the hash of the
\* arguments and its arguments are the same objects or equal to them (by
\* what they hold now); a miss computes the result and files it
memoized_check_scoreability(entries, scores, box, roll, card) ==
    LET hash == KeyHash(box, roll, ContentsOf(card, scores))
        hits == {e \in entries :
                    /\ e.hash = hash
                    /\ e.box = box
                    /\ DiceRoll__eq__(e.roll, roll)
                    /\ \/ e.card = card
                       \/ Scorecard__eq__(ContentsOf(e.card, scores), ContentsOf(card, scores))}
        result == check_scoreability(box, roll, ContentsOf(card, scores))
    IN  IF hits # {} THEN Memoized((CHOOSE e \in hits : TRUE).result, entries)
        ELSE Memoized(result, entries \cup {CacheEntry(hash, box, roll, card, result)})

\* Scorecard.view: a ScorecardView over a copy of box_scores
Scorecard_view(scores) == ScorecardView(scores)

----------------------------------------------------------------------------
(* The state machine *)

\* the players, by their place in Game._players
Players == 0..(NumPlayers - 1)

\* a player's Scorecard
PlayerCard(scores, count) == [box_scores |-> scores, yahtzee_bonus_count |-> count]

\* Game._reset: a fresh Scorecard for every player, the first player to play
GameInit ==
    /\ _scorecards = [player \in Players |-> PlayerCard(EmptyCard, 0)]
    /\ _current_player_index = 0
    /\ _has_final_results = FALSE

\* nothing has been memoized, no view has been taken and no turn or game
\* has begun
ExtInit ==
    /\ cache = {}
    /\ last_card = NoCard
    /\ view = None
    /\ take_turn_dice_to_reroll = {}
    /\ GameInit

\* DiceCup.__init__
CupInit ==
    /\ _roll_count = 0
    /\ _stored_roll = None
    /\ roll_calls = 0
    /\ rolls_produced = 0

\* no simulation is in progress
NoSimulation ==
    /\ trial_idx = 0
    /\ occurrences = NoCounts
    /\ total_scores = NoCounts
    /\ simulated_roll = << >>
    /\ analysis = << >>

\* no decision is being made
BotInit ==
    /\ pc = "none"
    /\ roll_count = 0
    /\ trials = 0
    /\ sim_box = 0
    /\ expected_results = << >>
    /\ NoSimulation

\* no game is being played from a list, the cup is fresh, no turn is on
RestInit ==
    /\ script = << >>
    /\ played = 0
    /\ CupInit
    /\ ExtInit
    /\ BotInit

\* a scorecard the test suite's games reach, before any further call
Init ==
    \E game \in Games : \E k \in 0..Len(game) :
        LET start == Replay(game, k)
        IN  /\ box_scores = start.box_scores
            /\ yahtzee_bonus_count = start.yahtzee_bonus_count
            /\ fills = 0
            /\ last_op = "none"
            /\ last_box = "none"
            /\ last_roll = << >>
            /\ raised = "none"
            /\ scoreability = "none"
            /\ pre_scores = start.box_scores
            /\ pre_bonus = start.yahtzee_bonus_count
            /\ returned = None
            /\ last_indices = {}
            /\ RestInit

\* the caller is between two calls: the last call's outcome has been taken
Idle == last_op = "none"

\* card.set_box_score(box, roll)
SetBoxScore(box, roll) ==
    LET out == set_box_score(box_scores, yahtzee_bonus_count, box, roll)
    IN  /\ Idle
        /\ out.raised = "none" => fills < MaxFills
        /\ box_scores' = out.box_scores
        /\ yahtzee_bonus_count' = out.yahtzee_bonus_count
        /\ fills' = IF out.raised = "none" THEN fills + 1 ELSE fills
        /\ last_op' = "set_box_score"
        /\ last_box' = box
        /\ last_roll' = roll
        /\ raised' = out.raised
        /\ scoreability' = "none"
        /\ pre_scores' = box_scores
        /\ pre_bonus' = yahtzee_bonus_count
        /\ returned' = None
        /\ last_indices' = {}
        /\ UNCHANGED rest_vars

\* card.zero_box(box, roll)
ZeroBox(box, roll) ==
    LET out == zero_box(box_scores, yahtzee_bonus_count, box, roll)
    IN  /\ Idle
        /\ out.raised = "none" => fills < MaxFills
        /\ box_scores' = out.box_scores
        /\ yahtzee_bonus_count' = out.yahtzee_bonus_count
        /\ fills' = IF out.raised = "none" THEN fills + 1 ELSE fills
        /\ last_op' = "zero_box"
        /\ last_box' = box
        /\ last_roll' = roll
        /\ raised' = out.raised
        /\ scoreability' = "none"
        /\ pre_scores' = box_scores
        /\ pre_bonus' = yahtzee_bonus_count
        /\ returned' = None
        /\ last_indices' = {}
        /\ UNCHANGED rest_vars

\* check_scoreability(box, roll, card)
CheckScoreability(box, roll) ==
    /\ Idle
    /\ last_op' = "check_scoreability"
    /\ last_box' = box
    /\ last_roll' = roll
    /\ raised' = "none"
    /\ scoreability' = check_scoreability(box, roll, box_scores)
    /\ pre_scores' = box_scores
    /\ pre_bonus' = yahtzee_bonus_count
    /\ returned' = None
    /\ last_indices' = {}
    /\ UNCHANGED <<box_scores, yahtzee_bonus_count, fills>>
    /\ UNCHANGED rest_vars

\* the caller takes the call's outcome (the value returned or the exception
\* raised) and goes on; the card stays as the call left it
Return ==
    /\ ~Idle
    /\ last_op' = "none"
    /\ last_box' = "none"
    /\ last_roll' = << >>
    /\ raised' = "none"
    /\ scoreability' = "none"
    /\ pre_scores' = box_scores
    /\ pre_bonus' = yahtzee_bonus_count
    /\ returned' = None
    /\ last_indices' = {}
    /\ UNCHANGED <<box_scores, yahtzee_bonus_count, fills>>
    /\ UNCHANGED rest_vars

\* a fresh Scorecard and a game to play on it
InitPlay ==
    /\ script \in PlayGames
    /\ played = 0
    /\ box_scores = EmptyCard
    /\ yahtzee_bonus_count = 0
    /\ fills = 0
    /\ last_op = "none"
    /\ last_box = "none"
    /\ last_roll = << >>
    /\ raised = "none"
    /\ scoreability = "none"
    /\ pre_scores = EmptyCard
    /\ pre_bonus = 0
    /\ returned = None
    /\ last_indices = {}
    /\ CupInit
    /\ ExtInit
    /\ BotInit

\* the next call of the game is made on the card
PlayCall ==
    LET c == script[played + 1]
        out == Apply(c, box_scores, yahtzee_bonus_count)
    IN  /\ Idle
        /\ played < Len(script)
        /\ played' = played + 1
        /\ box_scores' = out.box_scores
        /\ yahtzee_bonus_count' = out.yahtzee_bonus_count
        /\ last_op' = c.op
        /\ last_box' = c.box
        /\ last_roll' = c.roll
        /\ raised' = out.raised
        /\ scoreability' = "none"
        /\ pre_scores' = box_scores
        /\ pre_bonus' = yahtzee_bonus_count
        /\ returned' = None
        /\ last_indices' = {}
        /\ UNCHANGED <<fills, script, cup_vars, bot_vars, ext_vars>>

\* card.get_card_score()
GetCardScore ==
    /\ Idle
    /\ last_op' = "get_card_score"
    /\ last_box' = "none"
    /\ last_roll' = << >>
    /\ raised' = "none"
    /\ scoreability' = "none"
    /\ pre_scores' = box_scores
    /\ pre_bonus' = yahtzee_bonus_count
    /\ returned' = Some(get_card_score(box_scores, yahtzee_bonus_count))
    /\ last_indices' = {}
    /\ UNCHANGED <<box_scores, yahtzee_bonus_count, fills>>
    /\ UNCHANGED rest_vars

\* calculate_score(box, roll)
CalculateScore(box, roll) ==
    /\ Idle
    /\ last_op' = "calculate_score"
    /\ last_box' = box
    /\ last_roll' = roll
    /\ raised' = "none"
    /\ scoreability' = "none"
    /\ pre_scores' = box_scores
    /\ pre_bonus' = yahtzee_bonus_count
    /\ returned' = Some(calculate_score(box, roll))
    /\ last_indices' = {}
    /\ UNCHANGED <<box_scores, yahtzee_bonus_count, fills>>
    /\ UNCHANGED rest_vars

Next ==
    \/ Idle /\ \E box \in Box : \E roll \in Rolls : SetBoxScore(box, roll)
    \/ Idle /\ \E box \in Box : \E roll \in Rolls : ZeroBox(box, roll)
    \/ Return

Spec == Init /\ [][Next]_vars

\* the classification of every box for every roll, on the initial scorecards
NextCheck ==
    \/ Idle /\ \E box \in Box : \E roll \in SortedRolls : CheckScoreability(box, roll)
    \/ Return

SpecCheck == Init /\ [][NextCheck]_vars

\* a fresh DiceCup beside a fresh Scorecard
InitCup ==
    /\ script = << >>
    /\ played = 0
    /\ box_scores = EmptyCard
    /\ yahtzee_bonus_count = 0
    /\ fills = 0
    /\ last_op = "none"
    /\ last_box = "none"
    /\ last_roll = << >>
    /\ raised = "none"
    /\ scoreability = "none"
    /\ pre_scores = EmptyCard
    /\ pre_bonus = 0
    /\ returned = None
    /\ last_indices = {}
    /\ CupInit
    /\ ExtInit
    /\ BotInit

\* cup.roll_dice(reroll_indices)
RollDice(reroll_indices) ==
    /\ Idle
    /\ roll_calls < MaxRollCalls
    /\ \E out \in roll_dice(_roll_count, _stored_roll, reroll_indices) :
           /\ _roll_count' = out._roll_count
           /\ _stored_roll' = out._stored_roll
           /\ raised' = out.raised
           /\ returned' = out.returned
           /\ rolls_produced' = IF out.raised = "none" THEN rolls_produced + 1
                                 ELSE rolls_produced
    /\ roll_calls' = roll_calls + 1
    /\ last_op' = "roll_dice"
    /\ last_box' = "none"
    /\ last_roll' = _stored_roll
    /\ last_indices' = reroll_indices
    /\ scoreability' = "none"
    /\ pre_scores' = box_scores
    /\ pre_bonus' = yahtzee_bonus_count
    /\ UNCHANGED <<box_scores, yahtzee_bonus_count, fills, script, played, bot_vars, ext_vars>>

\* one cup rolled again and again, with every set of reroll indices
NextCup ==
    \/ Idle /\ \E reroll_indices \in SUBSET (0..(NumDice - 1)) : RollDice(reroll_indices)
    \/ Return

SpecCup == InitCup /\ [][NextCup]_vars

\* RerollStrategy().choose_dice_to_reroll(box, roll)
ChooseDiceToReroll(box, roll) ==
    /\ Idle
    /\ last_op' = "choose_dice_to_reroll"
    /\ last_box' = box
    /\ last_roll' = roll
    /\ raised' = "none"
    /\ scoreability' = "none"
    /\ pre_scores' = box_scores
    /\ pre_bonus' = yahtzee_bonus_count
    /\ returned' = Some(choose_dice_to_reroll(box, roll))
    /\ last_indices' = {}
    /\ UNCHANGED <<box_scores, yahtzee_bonus_count, fills>>
    /\ UNCHANGED rest_vars

\* the reroll heuristic asked about every box and every roll of five dice
NextReroll ==
    \/ Idle /\ \E box \in Box : \E roll \in DiceRoll : ChooseDiceToReroll(box, roll)
    \/ Return

SpecReroll == InitCup /\ [][NextReroll]_vars

\* the rolls compared with each other
EqRolls == [1..NumDice -> 1..EqFaces]

\* DiceRoll(numbers) == DiceRoll(other), and the hashes of the two
CompareRolls(numbers, other) ==
    /\ Idle
    /\ last_op' = "__eq__"
    /\ last_box' = "none"
    /\ last_roll' = numbers
    /\ raised' = "none"
    /\ scoreability' = "none"
    /\ pre_scores' = box_scores
    /\ pre_bonus' = yahtzee_bonus_count
    /\ returned' = Some([other |-> other,
                         equal |-> DiceRoll__eq__(numbers, other),
                         hash |-> DiceRoll__hash__(numbers),
                         other_hash |-> DiceRoll__hash__(other)])
    /\ last_indices' = {}
    /\ UNCHANGED <<box_scores, yahtzee_bonus_count, fills>>
    /\ UNCHANGED rest_vars

\* every roll compared with every roll
NextEq ==
    \/ Idle /\ \E numbers \in EqRolls : \E other \in EqRolls : CompareRolls(numbers, other)
    \/ Return

SpecEq == InitCup /\ [][NextEq]_vars

\* the rolls the memoized calls are made with
MemoRolls ==
    {RollPool[i] : i \in 1..(IF NumMemoRolls < Len(RollPool) THEN NumMemoRolls
                             ELSE Len(RollPool))}

\* the scorecard, and the view taken of it, that a call can be given
Cards == {TheScorecard} \cup (IF view = None THEN {} ELSE {view[1]})

\* the call leaves the cache within the size explored
CacheWithinBound(memo) == Cardinality(memo.cache) <= MaxCached

\* check_scoreability(box, roll, card), through its cache
CheckScoreabilityCached(box, roll, card) ==
    LET memo == memoized_check_scoreability(cache, box_scores, box, roll, card)
    IN  /\ Idle
        /\ CacheWithinBound(memo)
        /\ cache' = memo.cache
        /\ last_card' = card
        /\ last_op' = "check_scoreability"
        /\ last_box' = box
        /\ last_roll' = roll
        /\ raised' = "none"
        /\ scoreability' = memo.result
        /\ pre_scores' = box_scores
        /\ pre_bonus' = yahtzee_bonus_count
        /\ returned' = None
        /\ last_indices' = {}
        /\ UNCHANGED <<box_scores, yahtzee_bonus_count, fills, view, take_turn_dice_to_reroll,
                       game_vars>>
        /\ UNCHANGED <<script, played, cup_vars, bot_vars>>

\* card.set_box_score(box, roll), its check_scoreability(box, roll, self)
\* going through the cache
SetBoxScoreCached(box, roll) ==
    LET memo == memoized_check_scoreability(cache, box_scores, box, roll, TheScorecard)
        out == IF box_scores[box] # None
                   THEN Outcome(box_scores, yahtzee_bonus_count, "BoxAlreadyScored")
               ELSE IF memo.result = "NOT_SCOREABLE"
                   THEN Outcome(box_scores, yahtzee_bonus_count, "InvalidBoxError")
               ELSE set_box_score(box_scores, yahtzee_bonus_count, box, roll)
    IN  /\ Idle
        /\ out.raised = "none" => fills < MaxFills
        /\ box_scores[box] = None => CacheWithinBound(memo)
        /\ cache' = IF box_scores[box] = None THEN memo.cache ELSE cache
        /\ last_card' = TheScorecard
        /\ box_scores' = out.box_scores
        /\ yahtzee_bonus_count' = out.yahtzee_bonus_count
        /\ fills' = IF out.raised = "none" THEN fills + 1 ELSE fills
        /\ last_op' = "set_box_score"
        /\ last_box' = box
        /\ last_roll' = roll
        /\ raised' = out.raised
        /\ scoreability' = "none"
        /\ pre_scores' = box_scores
        /\ pre_bonus' = yahtzee_bonus_count
        /\ returned' = None
        /\ last_indices' = {}
        /\ UNCHANGED <<view, take_turn_dice_to_reroll, game_vars, script, played, cup_vars,
                       bot_vars>>

\* card.view
TakeView ==
    /\ Idle
    /\ view = None
    /\ view' = Some(Scorecard_view(box_scores))
    /\ last_op' = "view"
    /\ last_box' = "none"
    /\ last_roll' = << >>
    /\ raised' = "none"
    /\ scoreability' = "none"
    /\ pre_scores' = box_scores
    /\ pre_bonus' = yahtzee_bonus_count
    /\ returned' = None
    /\ last_indices' = {}
    /\ UNCHANGED <<box_scores, yahtzee_bonus_count, fills, cache, last_card,
                   take_turn_dice_to_reroll, game_vars>>
    /\ UNCHANGED <<script, played, cup_vars, bot_vars>>

\* a scorecard filled, viewed and asked about, the answers coming through
\* the cache
\* ScorecardView.get_card_score: self._card_get_score(), the bound method
\* get_card_score of the Scorecard the view was taken from, called on that
\* scorecard as it is now (scores, count)
ScorecardView_get_card_score(v, scores, count) == get_card_score(scores, count)

\* ScorecardView.get_unscored_boxes
ScorecardView_get_unscored_boxes(v) == view_get_unscored_boxes(v.box_scores)

\* the boxes of the view that are written to
WrittenBoxes ==
    {BoxOrder[i] : i \in 1..(IF MaxWrittenBoxes < Len(BoxOrder) THEN MaxWrittenBoxes
                              ELSE Len(BoxOrder))}

\* view.box_scores[box] = value: the dict of the view is a copy of the
\* scorecard's (dict(self.box_scores)), so only the view changes
WriteView(box, value) ==
    /\ Idle
    /\ view # None
    /\ view[1].box_scores[box] # value
    /\ view' = Some([view[1] EXCEPT !.box_scores[box] = value])
    /\ last_op' = "view.box_scores[box] = value"
    /\ last_box' = box
    /\ last_roll' = << >>
    /\ raised' = "none"
    /\ scoreability' = "none"
    /\ pre_scores' = box_scores
    /\ pre_bonus' = yahtzee_bonus_count
    /\ returned' = None
    /\ last_indices' = {}
    /\ UNCHANGED <<box_scores, yahtzee_bonus_count, fills, cache, last_card,
                   take_turn_dice_to_reroll, game_vars>>
    /\ UNCHANGED <<script, played, cup_vars, bot_vars>>

\* view.box_scores, view.get_unscored_boxes() and view.get_card_score()
ReadView ==
    /\ Idle
    /\ view # None
    /\ returned' = Some([box_scores |-> view[1].box_scores,
                         get_unscored_boxes |-> ScorecardView_get_unscored_boxes(view[1]),
                         get_card_score |->
                             ScorecardView_get_card_score(view[1], box_scores,
                                                          yahtzee_bonus_count)])
    /\ last_op' = "view.get_card_score"
    /\ last_box' = "none"
    /\ last_roll' = << >>
    /\ raised' = "none"
    /\ scoreability' = "none"
    /\ pre_scores' = box_scores
    /\ pre_bonus' = yahtzee_bonus_count
    /\ last_indices' = {}
    /\ UNCHANGED <<box_scores, yahtzee_bonus_count, fills>>
    /\ UNCHANGED rest_vars

\* a view taken of the scorecard, fills of the scorecard, reads of the view
\* and writes to it
NextView ==
    \/ Idle /\ \E box \in Box : \E roll \in Rolls : SetBoxScore(box, roll)
    \/ Idle /\ \E box \in Box : \E roll \in Rolls : ZeroBox(box, roll)
    \/ TakeView
    \/ \E box \in WrittenBoxes : WriteView(box, None) \/ WriteView(box, Some(0))
    \/ ReadView
    \/ Return

SpecView == Init /\ [][NextView]_vars

NextMemo ==
    \/ Idle /\ \E box \in Box : \E roll \in MemoRolls : \E card \in Cards :
                   CheckScoreabilityCached(box, roll, card)
    \/ Idle /\ \E box \in Box : \E roll \in MemoRolls : SetBoxScoreCached(box, roll)
    \/ Idle /\ \E box \in Box : \E roll \in MemoRolls : ZeroBox(box, roll)
    \/ TakeView
    \/ Return

SpecMemo == InitCup /\ [][NextMemo]_vars

\* every call of the game is the one Game._play_turn makes for the box and
\* the roll: set_box_score when POINTS_SCOREABLE, zero_box when ZERO_SCOREABLE
PlayedByTheGame(game) ==
    \A k \in 1..Len(game) :
        LET before == Replay(game, k - 1)
            scoreable == check_scoreability(game[k].box, game[k].roll, before.box_scores)
        IN  \/ scoreable = "POINTS_SCOREABLE" /\ game[k].op = "set_box_score"
            \/ scoreable = "ZERO_SCOREABLE" /\ game[k].op = "zero_box"

\* the games whose every fill Game._play_turn can make
LegalGames == {game \in PlayGames \cup BotGames : PlayedByTheGame(game)}

\* a scorecard that legal fills reach, before any further call
InitLegal ==
    \E game \in LegalGames : \E k \in 0..Len(game) :
        LET start == Replay(game, k)
        IN  /\ box_scores = start.box_scores
            /\ yahtzee_bonus_count = start.yahtzee_bonus_count
            /\ fills = 0
            /\ last_op = "none"
            /\ last_box = "none"
            /\ last_roll = << >>
            /\ raised = "none"
            /\ scoreability = "none"
            /\ pre_scores = start.box_scores
            /\ pre_bonus = start.yahtzee_bonus_count
            /\ returned = None
            /\ last_indices = {}
            /\ RestInit

\* Game._play_turn refusing the player's choice: InvalidBoxError, the card
\* as it was
RefuseBox(box, roll) ==
    /\ Idle
    /\ last_op' = "_play_turn"
    /\ last_box' = box
    /\ last_roll' = roll
    /\ raised' = "InvalidBoxError"
    /\ scoreability' = "none"
    /\ pre_scores' = box_scores
    /\ pre_bonus' = yahtzee_bonus_count
    /\ returned' = None
    /\ last_indices' = {}
    /\ UNCHANGED <<box_scores, yahtzee_bonus_count, fills>>
    /\ UNCHANGED rest_vars

\* the end of Game._play_turn for the box the player chose and the roll the
\* turn ended on
PlayTurnOn(box, roll) ==
    LET scoreable == check_scoreability(box, roll, box_scores)
    IN  \/ scoreable = "POINTS_SCOREABLE" /\ SetBoxScore(box, roll)
        \/ scoreable = "ZERO_SCOREABLE" /\ ZeroBox(box, roll)
        \/ scoreable = "NOT_SCOREABLE" /\ RefuseBox(box, roll)

\* turns ended on any box with any roll
NextLegal ==
    \/ Idle /\ \E box \in Box : \E roll \in Rolls : PlayTurnOn(box, roll)
    \/ Return

SpecLegal == InitLegal /\ [][NextLegal]_vars

\* a turn of the Monte Carlo player is about to start: a scorecard that a
\* game reaches with some box, and at most MaxUnscored boxes, left to fill,
\* and a TurnManager with its number of trials
InitBot ==
    /\ \E card \in BotCards :
           /\ box_scores = card.box_scores
           /\ yahtzee_bonus_count = card.yahtzee_bonus_count
           /\ pre_scores = card.box_scores
           /\ pre_bonus = card.yahtzee_bonus_count
    /\ trials \in 1..MaxTrials
    /\ fills = 0
    /\ last_op = "none"
    /\ last_box = "none"
    /\ last_roll = << >>
    /\ raised = "none"
    /\ scoreability = "none"
    /\ returned = None
    /\ last_indices = {}
    /\ script = << >>
    /\ played = 0
    /\ CupInit
    /\ ExtInit
    /\ pc = "none"
    /\ roll_count = 0
    /\ sim_box = 0
    /\ expected_results = << >>
    /\ NoSimulation

\* the unscored boxes and the reroll strategies of the decision being made
Unscored == view_get_unscored_boxes(box_scores)

Strategies == _calculate_reroll_strategies(Unscored, last_roll)

\* turn_manager.make_turn_decision(state, roll, roll_count): the final
\* decision is returned on roll 3, the strategies are simulated otherwise
\* (play_game plays a turn only while the game is not over, so the card has
\* a box left to fill)
BeginDecision(roll, count) ==
    /\ last_op' = "make_turn_decision"
    /\ last_box' = "none"
    /\ last_roll' = roll
    /\ roll_count' = count
    /\ IF count = 3
       THEN /\ returned' = Some(_make_final_decision(Unscored, roll, box_scores))
            /\ pc' = "decided"
       ELSE /\ returned' = None
            /\ pc' = "strategies"
    /\ sim_box' = 1
    /\ expected_results' = << >>
    /\ raised' = "none"
    /\ scoreability' = "none"
    /\ pre_scores' = box_scores
    /\ pre_bonus' = yahtzee_bonus_count
    /\ last_indices' = {}
    /\ UNCHANGED <<box_scores, yahtzee_bonus_count, fills, script, played, cup_vars, ext_vars>>
    /\ UNCHANGED <<trials, trial_idx, occurrences, total_scores, simulated_roll, analysis>>

\* make_turn_decision called between two turns' calls, on a card with a box
\* left to fill
MakeTurnDecision(roll, count) ==
    /\ Idle
    /\ fills < MaxFills
    /\ Unscored # << >>
    /\ BeginDecision(roll, count)

\* _simulate_strategies calls simulate_rolls with the next box's reroll
\* indices: with no die to reroll the analysis is made at once, otherwise the
\* trials start
SimulateRolls ==
    /\ pc = "strategies"
    /\ sim_box <= Len(Unscored)
    /\ LET reroll_indices == Strategies[Unscored[sim_box]]
           keepers_count == Len(_prepare_keepers(last_roll, reroll_indices))
       IN  /\ last_indices' = reroll_indices
           /\ IF keepers_count = 5
              THEN LET stats == no_reroll_statistics(Unscored, last_roll, box_scores, trials)
                   IN  /\ occurrences' = stats.occurrences
                       /\ total_scores' = stats.total_scores
                       /\ analysis' = _analyze_no_reroll(Unscored, last_roll, box_scores, trials)
                       /\ pc' = "analysed"
              ELSE /\ occurrences' = NoCounts
                   /\ total_scores' = NoCounts
                   /\ analysis' = << >>
                   /\ pc' = "trials"
    /\ trial_idx' = 0
    /\ simulated_roll' = << >>
    /\ UNCHANGED <<box_scores, yahtzee_bonus_count, fills, last_op, last_box, last_roll,
                   raised, scoreability, pre_scores, pre_bonus, returned,
                   script, played, cup_vars, ext_vars>>
    /\ UNCHANGED <<roll_count, trials, sim_box, expected_results>>

\* a trial's simulated roll: the keepers and the dice drawn for the trial
CreateSimulatedRoll ==
    /\ pc = "trials"
    /\ trial_idx < trials
    /\ LET keepers == _prepare_keepers(last_roll, last_indices)
       IN  \E new_dice \in new_dice_choices[NumDice - Len(keepers)] :
               simulated_roll' = _create_simulated_roll(keepers, new_dice)
    /\ pc' = "trial"
    /\ UNCHANGED <<box_scores, yahtzee_bonus_count, fills, last_op, last_box, last_roll,
                   raised, scoreability, pre_scores, pre_bonus, returned, last_indices,
                   script, played, cup_vars, ext_vars>>
    /\ UNCHANGED <<roll_count, trials, sim_box, trial_idx, occurrences, total_scores,
                   analysis, expected_results>>

\* the trial's scores are calculated and its statistics recorded
UpdateTrialStatistics ==
    /\ pc = "trial"
    /\ LET trial_scores == calculate_trial_scores(Unscored, simulated_roll, box_scores,
                                                  calculate_upper_score(box_scores))
       IN  \E stats \in {_update_trial_statistics(trial_scores, occurrences, total_scores)} :
               /\ occurrences' = stats.occurrences
               /\ total_scores' = stats.total_scores
    /\ trial_idx' = trial_idx + 1
    /\ simulated_roll' = << >>
    /\ pc' = "trials"
    /\ UNCHANGED <<box_scores, yahtzee_bonus_count, fills, last_op, last_box, last_roll,
                   raised, scoreability, pre_scores, pre_bonus, returned, last_indices,
                   script, played, cup_vars, ext_vars>>
    /\ UNCHANGED <<roll_count, trials, sim_box, analysis, expected_results>>

\* the trials are over: simulate_rolls builds its analysis
BuildAnalysis ==
    /\ pc = "trials"
    /\ trial_idx = trials
    /\ analysis' = _build_analysis(Unscored, occurrences, total_scores, trials)
    /\ pc' = "analysed"
    /\ UNCHANGED <<box_scores, yahtzee_bonus_count, fills, last_op, last_box, last_roll,
                   raised, scoreability, pre_scores, pre_bonus, returned, last_indices,
                   script, played, cup_vars, ext_vars>>
    /\ UNCHANGED <<roll_count, trials, sim_box, trial_idx, occurrences, total_scores,
                   simulated_roll, expected_results>>

\* _simulate_strategies takes the analysis: the box's expected score is kept
\* if the box is in it, and the next box's strategy comes up
CollectExpected ==
    /\ pc = "analysed"
    /\ LET box == Unscored[sim_box]
       IN  expected_results' =
               IF box \in DOMAIN analysis
               THEN Append(expected_results, Expected(box, analysis[box].expected_score))
               ELSE expected_results
    /\ sim_box' = sim_box + 1
    /\ pc' = "strategies"
    /\ last_indices' = {}
    /\ trial_idx' = 0
    /\ occurrences' = NoCounts
    /\ total_scores' = NoCounts
    /\ simulated_roll' = << >>
    /\ analysis' = << >>
    /\ UNCHANGED <<box_scores, yahtzee_bonus_count, fills, last_op, last_box, last_roll,
                   raised, scoreability, pre_scores, pre_bonus, returned,
                   script, played, cup_vars, ext_vars>>
    /\ UNCHANGED <<roll_count, trials>>

\* every strategy is simulated: make_turn_decision returns its decision
Decide ==
    /\ pc = "strategies"
    /\ sim_box > Len(Unscored)
    /\ returned' = Some(decide(Unscored, last_roll, box_scores, expected_results))
    /\ pc' = "decided"
    /\ UNCHANGED <<box_scores, yahtzee_bonus_count, fills, last_op, last_box, last_roll,
                   raised, scoreability, pre_scores, pre_bonus, last_indices,
                   script, played, cup_vars, ext_vars>>
    /\ UNCHANGED <<roll_count, trials, sim_box, trial_idx, occurrences, total_scores,
                   simulated_roll, analysis, expected_results>>

\* the decision ends the turn: take_turn returns the best box and _play_turn
\* scores it with the cup's current roll, the roll the decision was made on
PlayTurn ==
    /\ pc = "decided"
    /\ returned[1].should_end_turn
    /\ LET out == _play_turn(box_scores, yahtzee_bonus_count, returned[1].best_box, last_roll)
       IN  /\ box_scores' = out.box_scores
           /\ yahtzee_bonus_count' = out.yahtzee_bonus_count
           /\ raised' = out.raised
           /\ fills' = IF out.raised = "none" THEN fills + 1 ELSE fills
    /\ last_op' = "_play_turn"
    /\ last_box' = returned[1].best_box
    /\ pc' = "played"
    /\ UNCHANGED <<last_roll, scoreability, pre_scores, pre_bonus, returned, last_indices,
                   script, played, cup_vars, ext_vars>>
    /\ UNCHANGED <<roll_count, trials, sim_box, trial_idx, occurrences, total_scores,
                   simulated_roll, analysis, expected_results>>

\* the turn is over, or the player goes on to roll again: the decision is
\* taken and its record cleared
TurnReturn ==
    /\ \/ pc = "played"
       \/ pc = "decided" /\ ~returned[1].should_end_turn
    /\ pc' = "none"
    /\ last_op' = "none"
    /\ last_box' = "none"
    /\ last_roll' = << >>
    /\ raised' = "none"
    /\ returned' = None
    /\ roll_count' = 0
    /\ sim_box' = 0
    /\ expected_results' = << >>
    /\ pre_scores' = box_scores
    /\ pre_bonus' = yahtzee_bonus_count
    /\ UNCHANGED <<box_scores, yahtzee_bonus_count, fills, scoreability, last_indices,
                   script, played, cup_vars, ext_vars>>
    /\ UNCHANGED <<trials, trial_idx, occurrences, total_scores, simulated_roll, analysis>>

\* turns of the Monte Carlo player: a decision on every roll and roll number
NextBot ==
    \/ Idle /\ \E roll \in Rolls : \E count \in 1..MAX_ROLL_COUNT : MakeTurnDecision(roll, count)
    \/ SimulateRolls
    \/ CreateSimulatedRoll
    \/ UpdateTrialStatistics
    \/ BuildAnalysis
    \/ CollectExpected
    \/ Decide
    \/ PlayTurn
    \/ TurnReturn

SpecBot == InitBot /\ [][NextBot]_vars

\* a game that is over once the first player has no box left to fill
_is_game_over_first_player(scorecards) ==
    get_unscored_boxes(scorecards[0].box_scores) = {}

\* Game._is_game_over: no player has a box left to fill
_is_game_over(scorecards) ==
    \A player \in Players : get_unscored_boxes(scorecards[player].box_scores) = {}

\* Game._next_player
_next_player(index) == (index + 1) % NumPlayers

\* the rolls the players end their turns on
GameRolls ==
    {RollPool[i] : i \in 1..(IF NumGameRolls < Len(RollPool) THEN NumGameRolls
                             ELSE Len(RollPool))}

\* the boxes a player who always returns an eligible box can return for the
\* roll: the first MaxChoices unscored boxes that are not NOT_SCOREABLE
Choices(scores, roll) ==
    LET eligible == SelectSeq(view_get_unscored_boxes(scores),
                              LAMBDA box : check_scoreability(box, roll, scores) # "NOT_SCOREABLE")
    IN  {eligible[i] : i \in 1..(IF Len(eligible) < MaxChoices THEN Len(eligible)
                                  ELSE MaxChoices)}

\* one round of play_game's loop: the game is not over, the current player
\* takes a turn that ends on final_roll with chosen_box, _play_turn fills
\* the box on the player's scorecard, and the next player comes up
GameTurn(chosen_box, final_roll) ==
    LET player == _current_player_index
        card == _scorecards[player]
        out == _play_turn(card.box_scores, card.yahtzee_bonus_count, chosen_box, final_roll)
    IN  /\ ~_has_final_results
        /\ ~_is_game_over(_scorecards)
        /\ chosen_box \in Choices(card.box_scores, final_roll)
        /\ _scorecards' = [_scorecards EXCEPT
                               ![player] = PlayerCard(out.box_scores, out.yahtzee_bonus_count)]
        /\ _current_player_index' = _next_player(_current_player_index)
        /\ last_op' = "_play_turn"
        /\ last_box' = chosen_box
        /\ last_roll' = final_roll
        /\ raised' = out.raised
        /\ UNCHANGED _has_final_results
        /\ UNCHANGED <<box_scores, yahtzee_bonus_count, fills, scoreability, pre_scores,
                       pre_bonus, returned, last_indices, script, played, cup_vars, bot_vars>>
        /\ UNCHANGED <<cache, last_card, view, take_turn_dice_to_reroll>>

\* play_game leaves its loop: the game is over
GameEnd ==
    /\ ~_has_final_results
    /\ _is_game_over(_scorecards)
    /\ _has_final_results' = TRUE
    /\ last_op' = "play_game"
    /\ last_box' = "none"
    /\ last_roll' = << >>
    /\ raised' = "none"
    /\ UNCHANGED <<_scorecards, _current_player_index>>
    /\ UNCHANGED <<box_scores, yahtzee_bonus_count, fills, scoreability, pre_scores,
                   pre_bonus, returned, last_indices, script, played, cup_vars, bot_vars>>
    /\ UNCHANGED <<cache, last_card, view, take_turn_dice_to_reroll>>

\* Game.play_game with players that always return an eligible box
NextGame ==
    \/ \E chosen_box \in Box : \E final_roll \in GameRolls : GameTurn(chosen_box, final_roll)
    \/ GameEnd

SpecGame == InitCup /\ [][NextGame]_vars

\* play_game runs on: the loop takes its next round, the players return
SpecGameFair == SpecGame /\ WF_vars(NextGame)

\* take_turn rolls the cup: state.dice_cup.roll_dice(reroll_indices=dice_to_reroll)
TurnRoll ==
    /\ pc = "none"
    /\ RollDice(take_turn_dice_to_reroll)

\* take_turn hands the roll to make_turn_decision with the number of the roll
TurnDecide ==
    /\ pc = "none"
    /\ last_op = "roll_dice"
    /\ raised = "none"
    /\ BeginDecision(returned, roll_count + 1)

\* the decision does not end the turn: take_turn keeps its dice_to_reroll and
\* goes round the loop again, or leaves the loop after roll 3 and raises
\* RuntimeError("Turn should have ended by roll 3")
RollAgain ==
    /\ pc = "decided"
    /\ ~returned[1].should_end_turn
    /\ IF roll_count < 3
       THEN /\ take_turn_dice_to_reroll' = returned[1].dice_to_reroll
            /\ pc' = "none"
            /\ last_op' = "none"
            /\ raised' = "none"
       ELSE /\ take_turn_dice_to_reroll' = take_turn_dice_to_reroll
            /\ pc' = "raised"
            /\ last_op' = "take_turn"
            /\ raised' = "RuntimeError"
    /\ last_box' = "none"
    /\ last_roll' = << >>
    /\ returned' = None
    /\ sim_box' = 0
    /\ expected_results' = << >>
    /\ UNCHANGED <<box_scores, yahtzee_bonus_count, fills, scoreability, pre_scores,
                   pre_bonus, last_indices, script, played, cup_vars>>
    /\ UNCHANGED <<cache, last_card, view, game_vars>>
    /\ UNCHANGED <<roll_count, trials, trial_idx, occurrences, total_scores,
                   simulated_roll, analysis>>

\* MonteCarloBot.take_turn on a fresh cup, and the box it returns played
NextTurn ==
    \/ TurnRoll
    \/ TurnDecide
    \/ SimulateRolls
    \/ CreateSimulatedRoll
    \/ UpdateTrialStatistics
    \/ BuildAnalysis
    \/ CollectExpected
    \/ Decide
    \/ RollAgain
    \/ PlayTurn

SpecTurn == InitBot /\ [][NextTurn]_vars

\* take_turn is over: it has returned its box, which has been played, or an
\* exception has left it (no step of NextTurn can follow)
TurnOver ==
    \/ pc \in {"played", "raised"}
    \/ last_op = "roll_dice" /\ raised # "none"

\* a step of take_turn is possible: the loop rolls, the decision begins or
\* goes on, or its outcome is taken
CanStep ==
    \/ pc = "none" /\ Idle /\ roll_calls < MaxRollCalls
    \/ pc = "none" /\ last_op = "roll_dice" /\ raised = "none"
    \/ pc \in {"strategies", "trials", "trial", "analysed", "decided"}

\* take_turn runs on, the interpreter never leaving it half-way: weak
\* fairness of NextTurn, its enabling condition written out as ~TurnOver
SpecTurnFair == SpecTurn /\ ([]<>TurnOver \/ []<><<NextTurn>>_vars)

\* the test suite's games played call by call, the total read and scores
\* calculated between the calls
NextPlay ==
    \/ PlayCall
    \/ GetCardScore
    \/ Idle /\ \E box \in Box : \E roll \in SortedRolls : CalculateScore(box, roll)
    \/ Return

SpecPlay == InitPlay /\ [][NextPlay]_vars

----------------------------------------------------------------------------
(* Vocabulary of the claims *)

\* the roll is a five-of-a-kind: all five dice show the same face
FiveOfAKind(roll) == \A i \in DOMAIN roll : \A j \in DOMAIN roll : roll[i] = roll[j]

\* the Upper category whose face is f
UpperOfFace(f) == CHOOSE b \in Box : die_number(b) = Some(f)

\* how many dice of the roll show face f
Showing(roll, f) == Cardinality({i \in DOMAIN roll : roll[i] = f})

\* the roll satisfies the category's combination, in the words of the rules
Satisfies(box, roll) ==
    CASE box = "THREE_OF_A_KIND" -> \E f \in 1..6 : Showing(roll, f) >= 3
      [] box = "FOUR_OF_A_KIND" -> \E f \in 1..6 : Showing(roll, f) >= 4
      [] box = "FULL_HOUSE" ->
            \/ \E f \in 1..6 : \E g \in 1..6 :
                   f # g /\ Showing(roll, f) = 3 /\ Showing(roll, g) = 2
            \/ FiveOfAKind(roll)
      [] box = "SMALL_STRAIGHT" ->
            \E lo \in 1..3 : \A f \in lo..(lo + 3) : Showing(roll, f) >= 1
      [] box = "LARGE_STRAIGHT" ->
            \E lo \in 1..2 : \A f \in lo..(lo + 4) : Showing(roll, f) = 1
      [] box = "YAHTZEE" -> FiveOfAKind(roll)
      [] OTHER -> TRUE

\* the last call was one of the two fill operations
FillCalled == last_op \in {"set_box_score", "zero_box"}

\* the last call left the card as it found it
CardUntouched == box_scores = pre_scores /\ yahtzee_bonus_count = pre_bonus

\* the classification of the last call's box for its roll, on the card it found
PreClass == check_scoreability(last_box, last_roll, pre_scores)

\* the scores of the filled categories of a section, added up
FilledSum(sec) ==
    SumSeq([i \in 1..Len(BoxOrder) |->
               IF section(BoxOrder[i]) = sec /\ box_scores[BoxOrder[i]] # None
               THEN box_scores[BoxOrder[i]][1] ELSE 0])

\* five dice all showing face f
FiveOf(f) == <<f, f, f, f, f>>

\* the perfect-game scenario: the category filled and the face rolled, in order
PerfectScenario ==
    << <<"YAHTZEE", 6>>, <<"SIXES", 6>>, <<"ACES", 1>>, <<"TWOS", 2>>,
       <<"THREES", 3>>, <<"FOURS", 4>>, <<"FIVES", 5>>, <<"FULL_HOUSE", 1>>,
       <<"SMALL_STRAIGHT", 2>>, <<"LARGE_STRAIGHT", 3>>, <<"THREE_OF_A_KIND", 4>>,
       <<"FOUR_OF_A_KIND", 5>>, <<"CHANCE", 6>> >>

\* the scenario is the game being played: every call is set_box_score on the
\* scenario's category with five dice of the scenario's face
PlayingPerfectScenario ==
    /\ Len(script) = Len(PerfectScenario)
    /\ \A i \in 1..Len(PerfectScenario) :
           /\ script[i].op = "set_box_score"
           /\ script[i].box = PerfectScenario[i][1]
           /\ script[i].roll = FiveOf(PerfectScenario[i][2])

\* the point value of a category for a roll, in the words of the rules
PointValue(box, roll) ==
    CASE section(box) = "UPPER" -> die_number(box)[1] * Showing(roll, die_number(box)[1])
      [] box \in {"THREE_OF_A_KIND", "FOUR_OF_A_KIND", "CHANCE"} ->
            1 * Showing(roll, 1) + 2 * Showing(roll, 2) + 3 * Showing(roll, 3)
            + 4 * Showing(roll, 4) + 5 * Showing(roll, 5) + 6 * Showing(roll, 6)
      [] box = "FULL_HOUSE" -> 25
      [] box = "SMALL_STRAIGHT" -> 30
      [] box = "LARGE_STRAIGHT" -> 40
      [] box = "YAHTZEE" -> 50

\* the category's place in the enumeration order
EnumIndex(box) == CHOOSE i \in 1..Len(BoxOrder) : BoxOrder[i] = box

\* the category is unfilled and the roll can be scored in it, for points or
\* for zero
Eligible(box, roll) ==
    /\ box_scores[box] = None
    /\ check_scoreability(box, roll, box_scores) # "NOT_SCOREABLE"

\* the score the decision engine gives a category for a roll: the point value
\* when the roll scores points and 0 when it scores zero, plus 100 for a
\* five-of-a-kind when YAHTZEE holds 50 or is unfilled, plus 35 when an Upper
\* category takes the Upper total from below 63 to 63 or more
EngineScore(box, roll) ==
    LET base == IF check_scoreability(box, roll, box_scores) = "POINTS_SCOREABLE"
                THEN PointValue(box, roll) ELSE 0
        five == IF FiveOfAKind(roll) /\ box_scores["YAHTZEE"] \in {None, Some(50)}
                THEN 100 ELSE 0
        upper == FilledSum("UPPER")
        crossing == IF section(box) = "UPPER" /\ upper < 63 /\ upper + base + five >= 63
                    THEN 35 ELSE 0
    IN  base + five + crossing

\* the eligible categories with the highest engine score for a roll
TopScoring(roll) ==
    LET eligible == {b \in Box : Eligible(b, roll)}
    IN  {b \in eligible : \A c \in eligible : EngineScore(c, roll) <= EngineScore(b, roll)}

\* the first category of a non-empty set in the enumeration order
FirstInOrder(boxes) == CHOOSE b \in boxes : \A c \in boxes : EnumIndex(b) <= EnumIndex(c)

\* make_turn_decision has returned its decision and the turn has not gone on
Decided == pc = "decided" /\ last_op = "make_turn_decision"

\* two quotients are the same number
SameNumber(x, y) == x[1] * y[2] = y[1] * x[2]

\* a quotient is the integer n
IsInteger(x, n) == x[1] = n * x[2]

\* the categories left to fill
Unfilled == {b \in Box : box_scores[b] = None}

----------------------------------------------------------------------------
(* The claims *)

\* C1: no step changes the score of a filled category or sets it back to
\* None, whether the call succeeds or raises.
C1_FilledScoreIsKept ==
    [][\A b \in Box : box_scores[b] # None => box_scores'[b] = box_scores[b]]_vars

\* C1 witness: after a fill made in this run, a fill operation was called on
\* a filled category and its score is what it was.
C1_Witness ==
    /\ FillCalled
    /\ fills >= 1
    /\ pre_scores[last_box] # None
    /\ box_scores[last_box] = pre_scores[last_box]

\* C2: set_box_score and zero_box on a filled category raise
\* BoxAlreadyScored for every roll, joker rule active or not, and leave the
\* scores and the bonus counter unchanged.
C2_FilledBoxRaisesBoxAlreadyScored ==
    (FillCalled /\ pre_scores[last_box] # None)
        => (raised = "BoxAlreadyScored" /\ CardUntouched)

\* C2 witness: set_box_score on a filled category with a five-of-a-kind while
\* YAHTZEE is filled raised BoxAlreadyScored.
C2_Witness ==
    /\ last_op = "set_box_score"
    /\ pre_scores[last_box] # None
    /\ FiveOfAKind(last_roll)
    /\ pre_scores["YAHTZEE"] # None
    /\ raised = "BoxAlreadyScored"

\* C3: five-of-a-kind, YAHTZEE filled, matching Upper category unfilled:
\* POINTS_SCOREABLE for the matching Upper category, NOT_SCOREABLE for every
\* other category.
C3_JokerMatchingUpperUnfilled ==
    ( /\ last_op = "check_scoreability"
      /\ FiveOfAKind(last_roll)
      /\ box_scores["YAHTZEE"] # None
      /\ box_scores[UpperOfFace(last_roll[1])] = None )
        => scoreability = IF last_box = UpperOfFace(last_roll[1])
                          THEN "POINTS_SCOREABLE" ELSE "NOT_SCOREABLE"

\* C3 witness: with YAHTZEE zeroed and the matching Upper category unfilled,
\* an unfilled Lower category was classified NOT_SCOREABLE.
C3_Witness ==
    /\ last_op = "check_scoreability"
    /\ FiveOfAKind(last_roll)
    /\ box_scores["YAHTZEE"] = Some(0)
    /\ box_scores[UpperOfFace(last_roll[1])] = None
    /\ section(last_box) = "LOWER"
    /\ box_scores[last_box] = None
    /\ scoreability = "NOT_SCOREABLE"

\* C4: five-of-a-kind, YAHTZEE filled, matching Upper category filled: an
\* unfilled Lower category is POINTS_SCOREABLE; an unfilled Upper category is
\* POINTS_SCOREABLE if every Lower category is filled, else NOT_SCOREABLE.
C4_JokerMatchingUpperFilled ==
    ( /\ last_op = "check_scoreability"
      /\ FiveOfAKind(last_roll)
      /\ box_scores["YAHTZEE"] # None
      /\ box_scores[UpperOfFace(last_roll[1])] # None
      /\ box_scores[last_box] = None )
        => scoreability =
              IF section(last_box) = "LOWER" THEN "POINTS_SCOREABLE"
              ELSE IF \A b \in Box : section(b) = "LOWER" => box_scores[b] # None
                   THEN "POINTS_SCOREABLE"
                   ELSE "NOT_SCOREABLE"

\* C4 witness: with every Lower category and the matching Upper category
\* filled, an unfilled Upper category was classified POINTS_SCOREABLE.
C4_Witness ==
    /\ last_op = "check_scoreability"
    /\ FiveOfAKind(last_roll)
    /\ box_scores[UpperOfFace(last_roll[1])] # None
    /\ \A b \in Box : section(b) = "LOWER" => box_scores[b] # None
    /\ section(last_box) = "UPPER"
    /\ box_scores[last_box] = None
    /\ scoreability = "POINTS_SCOREABLE"

\* C5: a filled category is NOT_SCOREABLE for every roll, joker rule active
\* or not.
C5_FilledIsNotScoreable ==
    (last_op = "check_scoreability" /\ box_scores[last_box] # None)
        => scoreability = "NOT_SCOREABLE"

\* C5 witness: a category filled with 0 was classified NOT_SCOREABLE for a
\* five-of-a-kind, the joker rule active.
C5_Witness ==
    /\ last_op = "check_scoreability"
    /\ box_scores[last_box] = Some(0)
    /\ box_scores["YAHTZEE"] # None
    /\ FiveOfAKind(last_roll)
    /\ scoreability = "NOT_SCOREABLE"

\* C6: joker rule not active and the category unfilled: POINTS_SCOREABLE if
\* the roll satisfies the category's combination, ZERO_SCOREABLE otherwise;
\* Upper categories and CHANCE are always POINTS_SCOREABLE.
C6_StandardPathFollowsCombination ==
    ( /\ last_op = "check_scoreability"
      /\ ~(FiveOfAKind(last_roll) /\ box_scores["YAHTZEE"] # None)
      /\ box_scores[last_box] = None )
        => scoreability = IF Satisfies(last_box, last_roll)
                          THEN "POINTS_SCOREABLE" ELSE "ZERO_SCOREABLE"

\* C6 witness: an unfilled Upper category was classified POINTS_SCOREABLE for
\* a roll none of whose dice shows its face.
C6_Witness ==
    /\ last_op = "check_scoreability"
    /\ section(last_box) = "UPPER"
    /\ box_scores[last_box] = None
    /\ Showing(last_roll, die_number(last_box)[1]) = 0
    /\ scoreability = "POINTS_SCOREABLE"

\* C7 (as claimed): set_box_score succeeds only on a classification of
\* POINTS_SCOREABLE; on an unfilled ZERO_SCOREABLE category it raises
\* InvalidBoxError and records no score.
C7_SetBoxScoreNeedsPoints ==
    last_op = "set_box_score"
        => /\ raised = "none" => PreClass = "POINTS_SCOREABLE"
           /\ (pre_scores[last_box] = None /\ PreClass = "ZERO_SCOREABLE")
                  => (raised = "InvalidBoxError" /\ CardUntouched)

\* C8 (as claimed): zero_box succeeds only on a classification of
\* ZERO_SCOREABLE; on an unfilled category classified POINTS_SCOREABLE or
\* NOT_SCOREABLE it raises InvalidBoxError and leaves the card unchanged.
C8_ZeroBoxNeedsZeroScoreable ==
    last_op = "zero_box"
        => /\ raised = "none" => PreClass = "ZERO_SCOREABLE"
           /\ (pre_scores[last_box] = None /\ PreClass # "ZERO_SCOREABLE")
                  => (raised = "InvalidBoxError" /\ CardUntouched)

\* C8 (amended): zero_box makes no eligibility check: on an unfilled
\* category it succeeds for every roll and every classification, sets that
\* category's score to 0 and changes no other category's score.
C8_ZeroBoxFillsAnyUnfilledBox ==
    (last_op = "zero_box" /\ pre_scores[last_box] = None)
        => /\ raised = "none"
           /\ box_scores = [pre_scores EXCEPT ![last_box] = Some(0)]

\* C8 witness: zero_box succeeded on an unfilled category classified
\* POINTS_SCOREABLE and recorded 0.
C8_Witness ==
    /\ last_op = "zero_box"
    /\ pre_scores[last_box] = None
    /\ PreClass = "POINTS_SCOREABLE"
    /\ raised = "none"
    /\ box_scores[last_box] = Some(0)

\* C9: set_box_score on an unfilled category classified NOT_SCOREABLE raises
\* InvalidBoxError and leaves the scores and the bonus counter unchanged.
C9_NotScoreableRaisesInvalidBox ==
    ( /\ last_op = "set_box_score"
      /\ pre_scores[last_box] = None
      /\ PreClass = "NOT_SCOREABLE" )
        => (raised = "InvalidBoxError" /\ CardUntouched)

\* C9 witness: set_box_score on an unfilled Lower category, with a
\* five-of-a-kind whose matching Upper category is unfilled and YAHTZEE
\* filled, raised InvalidBoxError.
C9_Witness ==
    /\ last_op = "set_box_score"
    /\ pre_scores[last_box] = None
    /\ FiveOfAKind(last_roll)
    /\ pre_scores["YAHTZEE"] # None
    /\ section(last_box) = "LOWER"
    /\ raised = "InvalidBoxError"

\* C10: a successful fill adds exactly 1 to the bonus counter if the roll is
\* a five-of-a-kind and YAHTZEE held 50 before the call, and leaves the
\* counter as it was otherwise.
C10_BonusCountedOnceAfterFifty ==
    (FillCalled /\ raised = "none")
        => yahtzee_bonus_count =
              pre_bonus + (IF FiveOfAKind(last_roll) /\ pre_scores["YAHTZEE"] = Some(50)
                           THEN 1 ELSE 0)

\* C10 witness: zero_box with a five-of-a-kind while YAHTZEE holds 50 raised
\* the counter by one.
C10_Witness ==
    /\ last_op = "zero_box"
    /\ raised = "none"
    /\ FiveOfAKind(last_roll)
    /\ pre_scores["YAHTZEE"] = Some(50)
    /\ yahtzee_bonus_count = pre_bonus + 1

\* C11: get_card_score() returns the sum of the Upper scores, plus 35 if that
\* sum is at least 63, plus the sum of the Lower scores, plus 100 for every
\* bonus counted; unfilled categories count 0.
C11_TotalIsSumsPlusBonuses ==
    last_op = "get_card_score"
        => returned = Some(FilledSum("UPPER")
                           + (IF FilledSum("UPPER") >= 63 THEN 35 ELSE 0)
                           + FilledSum("LOWER")
                           + 100 * yahtzee_bonus_count)

\* C11 witness: mid-game, with an Upper sum of exactly 63, the total read
\* includes the 35.
C11_Witness ==
    /\ last_op = "get_card_score"
    /\ FilledSum("UPPER") = 63
    /\ \E b \in Box : box_scores[b] = None
    /\ returned = Some(63 + 35 + FilledSum("LOWER") + 100 * yahtzee_bonus_count)

C13_ScoreIsPointValue ==
    /\ last_op = "calculate_score" => returned = Some(PointValue(last_box, last_roll))
    /\ (last_op = "set_box_score" /\ raised = "none")
           => box_scores[last_box] = Some(PointValue(last_box, last_roll))

\* C13 witness: under the joker rule a five-of-a-kind filled FULL_HOUSE,
\* SMALL_STRAIGHT or LARGE_STRAIGHT and 25, 30 or 40 was recorded.
C13_Witness ==
    /\ last_op = "set_box_score"
    /\ raised = "none"
    /\ FiveOfAKind(last_roll)
    /\ pre_scores["YAHTZEE"] # None
    /\ \/ last_box = "FULL_HOUSE" /\ box_scores[last_box] = Some(25)
       \/ last_box = "SMALL_STRAIGHT" /\ box_scores[last_box] = Some(30)
       \/ last_box = "LARGE_STRAIGHT" /\ box_scores[last_box] = Some(40)

\* C20: on one cup the first three roll_dice calls return a roll, every later
\* call raises DiceRollCountError and leaves the stored roll as it was, and
\* the cup never returns more than three rolls.
C20_FourthRollRaises ==
    /\ [][last_op' = "roll_dice"
             => IF roll_calls < 3
                THEN /\ raised' = "none"
                     /\ returned' \in DiceRoll
                     /\ _stored_roll' = returned'
                ELSE /\ raised' = "DiceRollCountError"
                     /\ _stored_roll' = _stored_roll]_vars
    /\ [](rolls_produced <= 3)

\* C20 witness: after three rolls a later call raised DiceRollCountError, the
\* cup still storing a roll.
C20_Witness ==
    /\ last_op = "roll_dice"
    /\ roll_calls > 3
    /\ rolls_produced = 3
    /\ raised = "DiceRollCountError"
    /\ _stored_roll \in DiceRoll

\* C14: whenever make_turn_decision signals the end of the turn, on any roll
\* number, the category it returns is unfilled and the roll is not
\* NOT_SCOREABLE in it; and _play_turn never raises InvalidBoxError, or
\* anything else, on the player's choice.
C14_ChoiceIsEligible ==
    /\ (Decided /\ returned[1].should_end_turn) =>
           /\ box_scores[returned[1].best_box] = None
           /\ check_scoreability(returned[1].best_box, last_roll, box_scores) # "NOT_SCOREABLE"
    /\ last_op = "_play_turn" =>
           /\ raised = "none"
           /\ pre_scores[last_box] = None
           /\ box_scores[last_box] # None

\* C14 witness: a turn ended on roll 1 or 2 and was played on a roll that
\* some unfilled category could not take.
C14_Witness ==
    /\ last_op = "_play_turn"
    /\ roll_count \in {1, 2}
    /\ raised = "none"
    /\ \E c \in Box :
           /\ pre_scores[c] = None
           /\ check_scoreability(c, last_roll, pre_scores) = "NOT_SCOREABLE"

\* C15: the decision make_turn_decision returns on roll 3 ends the turn and
\* rerolls no die.
C15_RollThreeEndsTurn ==
    (Decided /\ roll_count = 3) =>
        /\ returned[1].should_end_turn = TRUE
        /\ returned[1].dice_to_reroll = {}

\* C15 witness: a decision returned on roll 3 for a card with several
\* unfilled categories, one of which would have rerolled dice.
C15_Witness ==
    /\ Decided
    /\ roll_count = 3
    /\ Cardinality(Unfilled) >= 2
    /\ choose_dice_to_reroll(returned[1].best_box, last_roll) # {}

\* C16: on roll 3 the category returned is eligible, no eligible category
\* has a higher engine score for the roll, and it is the first in the
\* enumeration order of the eligible categories with that score.
C16_RollThreeTakesFirstBest ==
    (Decided /\ roll_count = 3) =>
        /\ TopScoring(last_roll) # {}
        /\ returned[1].best_box = FirstInOrder(TopScoring(last_roll))

\* C16 witness: a decision on roll 3 where two eligible categories tie for
\* the highest score and another unfilled category is not eligible.
C16_Witness ==
    /\ Decided
    /\ roll_count = 3
    /\ Cardinality(TopScoring(last_roll)) >= 2
    /\ \E c \in Unfilled : ~Eligible(c, last_roll)

\* the decision of roll 1 or 2: the best of the kept expected scores, or the
\* decision of the final roll when none is kept
C17_Decision ==
    (Decided /\ roll_count \in {1, 2}) =>
        IF expected_results = << >>
        THEN /\ returned[1].best_box = FirstInOrder(TopScoring(last_roll))
             /\ returned[1].should_end_turn = TRUE
             /\ returned[1].dice_to_reroll = {}
        ELSE LET kept == {expected_results[i] : i \in DOMAIN expected_results}
                 best == {e \in kept : \A f \in kept :
                              ~Less(e.expected_score, f.expected_score)}
                 chosen == FirstInOrder({e.box : e \in best})
             IN  /\ returned[1].best_box = chosen
                 /\ returned[1].dice_to_reroll = choose_dice_to_reroll(chosen, last_roll)
                 /\ returned[1].should_end_turn = (choose_dice_to_reroll(chosen, last_roll) = {})

\* a simulation runs with the mask of the category it is run for
C17_OwnMask ==
    pc \in {"trials", "trial", "analysed"} =>
        /\ roll_count \in {1, 2}
        /\ sim_box \in 1..Len(view_get_unscored_boxes(box_scores))
        /\ last_indices =
               choose_dice_to_reroll(view_get_unscored_boxes(box_scores)[sim_box], last_roll)

\* the step that takes the analysis of a simulation keeps the category's
\* expected score exactly when the category is in the analysis
C17_Kept ==
    (pc = "analysed" /\ pc' = "strategies") =>
        LET box == view_get_unscored_boxes(box_scores)[sim_box]
        IN  /\ box \in DOMAIN analysis =>
                /\ Len(expected_results') = Len(expected_results) + 1
                /\ expected_results'[Len(expected_results')].box = box
                /\ expected_results'[Len(expected_results')].expected_score =
                       analysis[box].expected_score
            /\ box \notin DOMAIN analysis => expected_results' = expected_results
            /\ \A i \in DOMAIN expected_results : expected_results'[i] = expected_results[i]
            /\ sim_box' = sim_box + 1

\* the decision comes after a simulation for every unfilled category
C17_EveryCategorySimulated ==
    (Decided /\ roll_count \in {1, 2}) => sim_box = Cardinality(Unfilled) + 1

\* C17: on rolls 1 and 2 every simulation runs with the reroll mask of the
\* category it is run for; the expected score of a category is kept exactly
\* when the category is in the result of its own simulation; the decision
\* returns the first category in enumeration order among the kept ones with
\* the highest expected score, with that category's mask, ending the turn
\* exactly when the mask is empty; and with no category kept it returns the
\* decision of the final roll.
C17_SimulatesAndTakesBestExpected ==
    /\ [](C17_Decision /\ C17_OwnMask /\ C17_EveryCategorySimulated)
    /\ [][C17_Kept]_vars

\* C17 witness: a decision on roll 1 or 2 that goes on rolling, taken among
\* several kept categories of which two tie for the highest expected score.
C17_Witness ==
    /\ Decided
    /\ roll_count \in {1, 2}
    /\ returned[1].should_end_turn = FALSE
    /\ \E i \in DOMAIN expected_results : \E j \in DOMAIN expected_results :
           /\ i < j
           /\ SameNumber(expected_results[i].expected_score, expected_results[j].expected_score)
           /\ returned[1].best_box = expected_results[i].box

\* C17 witness of the fallback: a decision on roll 1 or 2 with no category
\* in the result of its own simulation.
C17_WitnessFallback ==
    /\ Decided
    /\ roll_count \in {1, 2}
    /\ expected_results = << >>

\* C18: with no die rerolled, the analysis simulate_rolls returns holds
\* exactly the eligible categories with the highest engine score for the
\* roll, each with probability 1 and an expected score equal to that score,
\* whatever the number of trials.
C18_NoRerollIsExact ==
    (pc = "analysed" /\ last_indices = {}) =>
        /\ DOMAIN analysis = TopScoring(last_roll)
        /\ \A box \in DOMAIN analysis :
               /\ IsInteger(analysis[box].probability, 1)
               /\ IsInteger(analysis[box].expected_score, EngineScore(box, last_roll))
               /\ IsInteger(analysis[box].mean_score, EngineScore(box, last_roll))

\* C18 witness: an analysis made with no die rerolled and more than one
\* trial, reporting a category with a score above zero.
C18_Witness ==
    /\ pc = "analysed"
    /\ last_indices = {}
    /\ trials >= 2
    /\ \E box \in DOMAIN analysis : EngineScore(box, last_roll) > 0

\* the step that records a trial credits the eligible categories with the
\* trial's highest score and no other
C19_TrialCredits ==
    (pc = "trial" /\ pc' = "trials") =>
        LET best == TopScoring(simulated_roll)
        IN  \A box \in Box :
                IF box \in best
                THEN /\ occurrences'[box] = occurrences[box] + 1
                     /\ total_scores'[box] = total_scores[box] + EngineScore(box, simulated_roll)
                ELSE /\ occurrences'[box] = occurrences[box]
                     /\ total_scores'[box] = total_scores[box]

\* the analysis reports the categories with an occurrence and their quotients
C19_Analysis ==
    (pc = "analysed" /\ last_indices # {}) =>
        /\ trial_idx = trials
        /\ DOMAIN analysis = {box \in Unfilled : occurrences[box] > 0}
        /\ \A box \in DOMAIN analysis :
               /\ analysis[box].occurrences = occurrences[box]
               /\ SameNumber(analysis[box].probability, <<occurrences[box], trials>>)
               /\ SameNumber(analysis[box].mean_score, <<total_scores[box], occurrences[box]>>)
               /\ SameNumber(analysis[box].expected_score,
                             <<occurrences[box] * total_scores[box], trials * occurrences[box]>>)

\* C19: with a die rerolled, a trial adds one occurrence and the trial's
\* highest engine score to every eligible category with that score and
\* leaves every other category's statistics alone; the analysis holds
\* exactly the unfilled categories with an occurrence, each with probability
\* occurrences / trials, mean score total / occurrences and expected score
\* probability x mean score.
C19_TrialsCreditTheBest ==
    /\ [][C19_TrialCredits]_vars
    /\ [](C19_Analysis)

\* C19 witness: an analysis after two trials with a die rerolled, where a
\* trial credited two tied categories and an unfilled category is absent.
C19_Witness ==
    /\ pc = "analysed"
    /\ last_indices # {}
    /\ trials = 2
    /\ Cardinality(DOMAIN analysis) >= 2
    /\ \E box \in DOMAIN analysis : \E other \in DOMAIN analysis :
           box # other /\ occurrences[box] + occurrences[other] > trials
    /\ \E box \in Unfilled : box \notin DOMAIN analysis

----------------------------------------------------------------------------
(* The dice cup's rerolls *)

\* the dice at the 0-based positions outside indices show the same in both rolls
KeptOutside(indices, before, after) ==
    \A i \in 0..(NumDice - 1) : i \notin indices => after[i + 1] = before[i + 1]

\* the rolls a roll_dice call can return from the cup's present state
PossibleRolls(reroll_indices) ==
    {out.returned : out \in roll_dice(_roll_count, _stored_roll, reroll_indices)}

\* a roll_dice call made with a roll in the cup returned a roll
C21_Redraw ==
    /\ last_op' = "roll_dice"
    /\ raised' = "none"
    /\ _stored_roll # None

\* as stated: on every draw made with a roll in the cup, the dice outside
\* the requested positions keep their values (also when no position is
\* requested)
C21_Original ==
    [][C21_Redraw => KeptOutside(last_indices', _stored_roll, _stored_roll')]_vars

\* C21: on a draw made with a roll in the cup and at least one position
\* requested, every die outside the requested positions keeps its value;
\* with no roll in the cup, or no position requested, all five dice are
\* thrown: any roll can come out, whatever the cup held.
C21_RerollKeepsOtherDice ==
    /\ [][C21_Redraw /\ last_indices' # {}
              => KeptOutside(last_indices', _stored_roll, _stored_roll')]_vars
    /\ [](_roll_count < MAX_ROLL_COUNT =>
              /\ PossibleRolls({}) = Throws
              /\ _stored_roll = None =>
                     \A indices \in SUBSET (0..(NumDice - 1)) :
                         PossibleRolls(indices) = Throws)

\* C21 witness: a reroll of two positions changed both and kept the other three.
C21_Witness ==
    /\ last_op = "roll_dice"
    /\ raised = "none"
    /\ last_roll # None
    /\ last_indices = {1, 3}
    /\ \A i \in 0..(NumDice - 1) :
           (i \in last_indices) <=> (_stored_roll[i + 1] # last_roll[i + 1])

\* a draw with a roll in the cup and no position requested changed every die
C21_FullRedrawWitness ==
    /\ last_op = "roll_dice"
    /\ raised = "none"
    /\ last_roll # None
    /\ last_indices = {}
    /\ \A i \in 0..(NumDice - 1) : _stored_roll[i + 1] # last_roll[i + 1]

----------------------------------------------------------------------------
(* The reroll heuristics of YAHTZEE and the straights *)

\* choose_dice_to_reroll has just returned a mask for the box
MaskChosenFor(box) == last_op = "choose_dice_to_reroll" /\ last_box = box

\* the face most dice of the roll show, the larger one when two faces tie
MostFrequentFace(roll) ==
    CHOOSE f \in 1..NumFaces :
        \A g \in 1..NumFaces :
            \/ Showing(roll, g) < Showing(roll, f)
            \/ Showing(roll, g) = Showing(roll, f) /\ g <= f

\* C22: for YAHTZEE the mask is empty on a five-of-a-kind, and otherwise
\* exactly the positions of the dice that differ from the roll's most
\* frequent face, the larger face when two faces are as frequent.
C22_YahtzeeKeepsMostFrequent ==
    MaskChosenFor("YAHTZEE") =>
        returned[1] = IF FiveOfAKind(last_roll) THEN {}
                      ELSE {i \in 0..(NumDice - 1) :
                                last_roll[i + 1] # MostFrequentFace(last_roll)}

\* the runs of four or five consecutive faces that make the straight
ValidRuns(box) ==
    IF box = "SMALL_STRAIGHT" THEN {{1, 2, 3, 4}, {2, 3, 4, 5}, {3, 4, 5, 6}}
    ELSE {{1, 2, 3, 4, 5}, {2, 3, 4, 5, 6}}

\* how many faces of the run the roll shows
Overlap(run, roll) == Cardinality({f \in run : Showing(roll, f) > 0})

\* C23: for a straight the mask is empty when the roll makes the straight;
\* otherwise the dice kept show pairwise distinct faces, all of one valid
\* run, that run overlaps the roll's faces the most among the valid runs,
\* and as many dice are kept as that overlap.
C23_StraightKeepsBestRun ==
    \A box \in {"SMALL_STRAIGHT", "LARGE_STRAIGHT"} :
        MaskChosenFor(box) =>
            LET mask == returned[1]
                kept == (0..(NumDice - 1)) \ mask
            IN  IF Satisfies(box, last_roll) THEN mask = {}
                ELSE \E run \in ValidRuns(box) :
                         /\ \A i \in kept : last_roll[i + 1] \in run
                         /\ \A i \in kept : \A j \in kept :
                                i # j => last_roll[i + 1] # last_roll[j + 1]
                         /\ \A other \in ValidRuns(box) :
                                Overlap(other, last_roll) <= Overlap(run, last_roll)
                         /\ Cardinality(kept) = Overlap(run, last_roll)

\* C23 witness: for SMALL_STRAIGHT on 1 1 3 4 6 the second 1 (a duplicate)
\* and the 6 (outside the run 1-4) are redrawn and 1 3 4 are kept.
C23_Witness ==
    /\ MaskChosenFor("SMALL_STRAIGHT")
    /\ last_roll = <<1, 1, 3, 4, 6>>
    /\ returned = Some({1, 4})

----------------------------------------------------------------------------
(* Equality of rolls *)

RECURSIVE Orderings(_)
\* the sequences that list every element of the set once
Orderings(S) ==
    IF S = {} THEN {<< >>}
    ELSE UNION {{<<x>> \o rest : rest \in Orderings(S \ {x})} : x \in S}

\* the ways of rearranging five dice
Rearrangements == Orderings(1..NumDice)

\* other is a rearrangement of numbers
IsPermutationOf(numbers, other) ==
    \E p \in Rearrangements : \A i \in 1..NumDice : other[i] = numbers[p[i]]

\* the two rolls show every face the same number of times
SameMultiset(numbers, other) ==
    \A f \in 1..NumFaces : Showing(numbers, f) = Showing(other, f)

\* C24: a roll and any rearrangement of it are equal and have the same hash,
\* and two rolls with different multisets of faces are not equal.
C24_EqualUpToOrder ==
    last_op = "__eq__" =>
        LET r == returned[1]
        IN  /\ IsPermutationOf(last_roll, r.other) => r.equal /\ r.hash = r.other_hash
            /\ ~SameMultiset(last_roll, r.other) => ~r.equal

\* C24 witness: 1 2 2 1 2 and its rearrangement 2 1 1 2 2, which differs from
\* it at four positions, compared equal with the same hash.
C24_Witness ==
    /\ last_op = "__eq__"
    /\ last_roll = <<1, 2, 2, 1, 2>>
    /\ returned[1].other = <<2, 1, 1, 2, 2>>
    /\ returned[1].equal
    /\ returned[1].hash = returned[1].other_hash

\* two rolls with different faces compared unequal
C24_WitnessDifferent ==
    /\ last_op = "__eq__"
    /\ last_roll = <<1, 1, 2, 1, 2>>
    /\ returned[1].other = <<1, 2, 2, 1, 2>>
    /\ ~returned[1].equal

----------------------------------------------------------------------------
(* Memoization *)

\* the box_scores the card given to the last cached call holds
LastCardContents == ContentsOf(last_card, box_scores)

\* check_scoreability has just answered through its cache
CachedAnswer == last_op = "check_scoreability" /\ last_card # NoCard

\* C25: whatever fills were made before, check_scoreability called through
\* its cache with the scorecard, or with a view of it, returns the
\* classification that the card's present contents determine.
C25_NeverStale ==
    CachedAnswer =>
        scoreability = check_scoreability(last_box, last_roll, LastCardContents)

\* C25 witness: the scorecard was asked about again after a fill, the cache
\* still holding, for the same box, roll and scorecard object, the other
\* answer given before the fill.
C25_Witness ==
    /\ CachedAnswer
    /\ last_card = TheScorecard
    /\ fills > 0
    /\ \E e \in cache :
           /\ e.card = TheScorecard
           /\ e.box = last_box
           /\ e.roll = last_roll
           /\ e.result # scoreability

----------------------------------------------------------------------------
(* The engine's score and the scorecard's *)

\* a turn has just filled a box on a card whose YAHTZEE box was filled
FilledWithYahtzeeScored ==
    /\ FillCalled
    /\ raised = "none"
    /\ pre_scores["YAHTZEE"] # None

\* what the fill added to get_card_score()
ScoreIncrease ==
    get_card_score(box_scores, yahtzee_bonus_count) - get_card_score(pre_scores, pre_bonus)

\* the score ScoreCalculator computed for the box before the fill
EngineScoreBefore ==
    _calculate_box_score(last_box, last_roll, pre_scores, calculate_upper_score(pre_scores))

\* C26: on a card with YAHTZEE filled, the score ScoreCalculator computes
\* for an unfilled eligible box and a roll is the increase of
\* get_card_score() when the box is filled with the roll (set_box_score if
\* POINTS_SCOREABLE, zero_box if ZERO_SCOREABLE), bonuses included.
C26_EngineScoreIsTheIncrease ==
    FilledWithYahtzeeScored => EngineScoreBefore = Some(ScoreIncrease)

----------------------------------------------------------------------------
(* A legal move *)

\* C27: on every scorecard with an unfilled box, whatever the roll (the
\* joker rule active or not), some unfilled box is classified
\* POINTS_SCOREABLE or ZERO_SCOREABLE (looked at between two calls: a call
\* that is returning holds the same card as the state after it).
C27_LegalMoveExists ==
    (Idle /\ Unfilled # {}) =>
        \A roll \in SortedRolls : \E box \in Unfilled : Eligible(box, roll)

\* C27 witness: a turn filled an Upper box with a five-of-a-kind of another
\* face, the joker rule active, that face's Upper box and every Lower box
\* filled before; and boxes are still unfilled.
C27_Witness ==
    /\ FillCalled
    /\ raised = "none"
    /\ FiveOfAKind(last_roll)
    /\ pre_scores["YAHTZEE"] # None
    /\ pre_scores[UpperOfFace(last_roll[1])] # None
    /\ \A box \in get_lower_boxes : pre_scores[box] # None
    /\ section(last_box) = "UPPER"
    /\ Unfilled # {}

----------------------------------------------------------------------------
(* The turn of the Monte Carlo player *)

\* take_turn has returned a box and the box has been played
TurnReturned == pc = "played"

\* C28: on a fresh cup and a card with a box left to fill, take_turn makes
\* at most three roll_dice calls, none raises DiceRollCountError, the
\* RuntimeError after the loop is never reached, and the turn does return a
\* box.
C28_TurnEndsByRollThree ==
    /\ [](raised \notin {"DiceRollCountError", "RuntimeError"})
    /\ [](roll_calls <= 3)
    /\ [](TurnReturned => returned[1].best_box \in Box)
    /\ [](TurnOver \/ CanStep)
    /\ <>TurnReturned

\* C28 witness: take_turn returned a box on its third roll, the turn's two
\* rerolls made.
C28_Witness ==
    /\ TurnReturned
    /\ roll_calls = 3
    /\ roll_count = 3
    /\ take_turn_dice_to_reroll # {}

----------------------------------------------------------------------------
(* The game loop *)

\* the boxes filled on a player's card
Filled(card) == {box \in Box : card.box_scores[box] # None}

\* a turn fills one unfilled box of the current player's card, leaves the
\* card's other boxes and the other players' cards alone, and hands the
\* turn to the next player in order
C29_TurnFillsOneBox ==
    (_scorecards' # _scorecards \/ _current_player_index' # _current_player_index) =>
        LET player == _current_player_index
        IN  /\ \E box \in Box :
                   /\ _scorecards[player].box_scores[box] = None
                   /\ _scorecards'[player].box_scores[box] # None
                   /\ \A other \in Box \ {box} :
                          _scorecards'[player].box_scores[other]
                              = _scorecards[player].box_scores[other]
            /\ \A other \in Players \ {player} : _scorecards'[other] = _scorecards[other]
            /\ _current_player_index' = (player + 1) % NumPlayers

\* C29: with players that always return an eligible box, every turn of
\* play_game fills exactly one unfilled box of the current player's card
\* and changes no other player's card; the players play in round-robin
\* order (player i has played one turn more than the players after the
\* current one); the loop is left exactly when every player has filled all
\* 13 boxes, and it is left.
C29_RoundRobinToTheEnd ==
    /\ [][C29_TurnFillsOneBox]_vars
    /\ [](\A player \in Players :
              Cardinality(Filled(_scorecards[player]))
                  = Cardinality(Filled(_scorecards[NumPlayers - 1]))
                    + (IF player < _current_player_index THEN 1 ELSE 0))
    /\ [](raised = "none")
    /\ [](_has_final_results <=>
              (last_op = "play_game"
               /\ \A player \in Players : Cardinality(Filled(_scorecards[player])) = 13))
    /\ <>_has_final_results

\* C29 witness: the game has ended, every player's 13 boxes filled, the
\* players' cards different.
C29_Witness ==
    /\ _has_final_results
    /\ \A player \in Players : Filled(_scorecards[player]) = Box
    /\ _current_player_index = 0
    /\ _scorecards[0] # _scorecards[1]

----------------------------------------------------------------------------
(* The view of the scorecard *)

\* the scorecard is filled by the step
CardFilled == box_scores' # box_scores

\* what the view answers now
ViewAnswers ==
    [box_scores |-> view[1].box_scores,
     get_unscored_boxes |-> ScorecardView_get_unscored_boxes(view[1]),
     get_card_score |-> ScorecardView_get_card_score(view[1], box_scores, yahtzee_bonus_count)]

\* a fill of the scorecard leaves the view's box_scores and unscored boxes
\* as they were
C30_FillKeepsViewBoxes ==
    (view # None /\ CardFilled) =>
        /\ view' = view
        /\ ViewAnswers'.box_scores = ViewAnswers.box_scores
        /\ ViewAnswers'.get_unscored_boxes = ViewAnswers.get_unscored_boxes

\* a fill of the scorecard leaves the view's total as it was
C30_FillKeepsViewTotal ==
    (view # None /\ CardFilled) => ViewAnswers'.get_card_score = ViewAnswers.get_card_score

\* a write to the view leaves the scorecard as it was
C30_WriteKeepsCard ==
    (view # None /\ view' # view) =>
        /\ box_scores' = box_scores
        /\ yahtzee_bonus_count' = yahtzee_bonus_count

\* C30: a view taken of the scorecard is a snapshot: a later fill of the
\* scorecard changes neither the view's box_scores, nor its unscored boxes,
\* nor the total its get_card_score returns, and a write to the view's
\* box_scores does not change the scorecard.
C30_ViewIsASnapshot ==
    [][C30_FillKeepsViewBoxes /\ C30_FillKeepsViewTotal /\ C30_WriteKeepsCard]_vars

\* the part of C30 the view keeps: its boxes are a snapshot and writes to
\* it stay in the view
C30_ViewBoxesAreASnapshot == [][C30_FillKeepsViewBoxes /\ C30_WriteKeepsCard]_vars

\* a view was taken, the scorecard then filled with points, and the view's
\* boxes differ from the scorecard's
C30_FilledAfterView ==
    /\ view # None
    /\ last_op \in {"set_box_score", "zero_box"}
    /\ raised = "none"
    /\ view[1].box_scores = pre_scores
    /\ ViewAnswers.get_card_score # get_card_score(pre_scores, pre_bonus)

\* a view was written to and the scorecard is as before
C30_WrittenView ==
    /\ view # None
    /\ last_op = "view.box_scores[box] = value"
    /\ view[1].box_scores # box_scores

====
